---------------------------- MODULE Spec2Model ----------------------------
(***************************************************************************)
(* A model of the quizit command-line utilities (src/local/*.py).          *)
(*                                                                         *)
(* Part I   compress_to_jpeg and generate_image_bytes (gen_image.py):      *)
(*          the size-targeted JPEG re-encoder, one action per step of its  *)
(*          two nested loops.                                              *)
(* Part II  the script runs: credential lookup, the per-item cache /       *)
(*          generate / upload loop of the three batch scripts.             *)
(*                                                                         *)
(* The two parts have disjoint variables; each has its own specification   *)
(* (SpecJpeg, SpecScripts) that leaves the other part's variables alone.   *)
(***************************************************************************)
EXTENDS Integers, Sequences, FiniteSets, TLC

(***************************************************************************)
(*                    PART I : gen_image.compress_to_jpeg                  *)
(***************************************************************************)

VARIABLES
    pc,            \* position in compress_to_jpeg / generate_image_bytes
    caller,        \* "compress_to_jpeg" (called directly) or "generate_image_bytes"
    raw,           \* the input bytes: what they decode to and how they encode
    target_kb,     \* argument target_kb
    max_dim,       \* argument max_dim
    resp_mime,     \* inline.mime_type of the generation response ("" = not given)
    mime_type,     \* generate_image_bytes' local mime_type
    img,           \* decoded image size [w, h] (img.size after convert("RGB"))
    scale,         \* the float scale, in units of 1/ScaleUnit
    work,          \* size [w, h] of the working image of the current outer iteration
    lo, hi,        \* bounds of the binary search
    local_best,    \* candidate of the current search (NoBytes = None)
    local_size,    \* its size, in bytes (the code keeps len/1024)
    best_bytes,    \* result of the loop
    best_size_kb,  \* its size, in bytes (-1 = None)
    warned,        \* the over-budget warning was printed
    ret,           \* value returned by compress_to_jpeg ([bytes, mime]; NoRet before)
    gen_ret,       \* value returned by generate_image_bytes
    via,           \* how the outer loop was left: "", "found" or "fallback"
    outer,         \* history: number of outer iterations started
    first_work,    \* history: the working size of the first outer iteration
    probes,        \* history: the qualities probed in the current search, in order
    encodes        \* history: number of jpeg_bytes calls so far

jpegVars == <<pc, caller, raw, target_kb, max_dim, resp_mime, mime_type, img,
              scale, work, lo, hi, local_best, local_size, best_bytes,
              best_size_kb, warned, ret, gen_ret, via, outer, first_work, probes,
              encodes>>

(***************************************************************************)
(* Variables of PART II : one run of a script, and what outlives it        *)
(***************************************************************************)
VARIABLES
    script,        \* which script runs
    argv,          \* its parsed arguments
    environ,       \* os.environ: credential name -> value (0 = not set)
    envfile,       \* the .env.local the script reads: name -> value (0 = no line)
    spc,           \* position in the script's main()
    exit_status,   \* -1 while running, else the process's exit status
    stderr,        \* user messages printed so far (tags)
    env,           \* the mapping load_env() returned
    oa_client,     \* an OpenAI client object was created
    cards,         \* the work items fetched, in order
    pos,           \* index of the current item (1-based)
    cache,         \* the local cache files: item id -> content (0 = no file)
    cur,           \* the current item's local variables
    log,           \* history: what was done for each item reached in this run
    lookups,       \* history: the credential lookups made in this run
    runs,          \* history: number of runs started
    unsent         \* history: the failed uploads of freshly generated images

scriptVars == <<script, argv, environ, envfile, spc, exit_status, stderr, env,
                oa_client, cards, pos, cache, cur, log, lookups, runs,
                unsent>>

(***************************************************************************)
(* PART III: one call of a helper function                                  *)
(***************************************************************************)
VARIABLES
    fn,            \* the helper called ("" = none)
    arg,           \* its argument(s)
    out            \* what the call gave (NoOut = not called yet)

fnVars == <<fn, arg, out>>

vars == <<jpegVars, scriptVars, fnVars>>

----------------------------------------------------------------------------
(* Bounds of the enumerated inputs *)

MaxTargetKb == 3
MaxComplexity == 4

(* Program constants *)

QualityLo == 10
QualityHi == 95
min_dim == 320
DefaultMaxDim == 1600
DefaultTargetKb == 50
BytesPerKb == 1024

(* The float scale is held as an integer number of 1/ScaleUnit, ScaleUnit =
   ScaleBase^2; products are formed in two halves so that no intermediate
   value leaves 32 bits. *)
ScaleBase == 10000
ScaleUnit == ScaleBase * ScaleBase

\* 1.0
One == ScaleUnit

Max(a, b) == IF a >= b THEN a ELSE b
Min(a, b) == IF a <= b THEN a ELSE b

(* Input domain.  Image sizes: the spec's two scenarios (4000x3000, 200x150),
   a portrait image, and images near the 320px limit. *)
ImageSizes ==
    { <<4000, 3000>>, <<200, 150>>, <<3000, 4000>>, <<640, 480>>,
      <<400, 300>>, <<1280, 960>> }
MaxDims == {DefaultMaxDim, 800}
TargetKbs == (1 .. MaxTargetKb) \cup {DefaultTargetKb}
Complexities == 1 .. MaxComplexity
RespMimes == {"", "image/png", "image/webp"}

NoBytes == [kind |-> "none", w |-> 0, h |-> 0, q |-> 0, len |-> 0]
NoRet == [bytes |-> NoBytes, mime |-> ""]
NoSize == [w |-> 0, h |-> 0]

\* Python truthiness of an Optional[bytes]: None and b"" are both false.
Truthy(b) == b.kind # "none" /\ b.len > 0


----------------------------------------------------------------------------
(* Float arithmetic on the scale *)

\* max_dim / max(w, h), capped by min(1.0, ...)               (line 60)
InitScaleWrongCap(w, h, md) ==
    LET mx == Max(w, h)
        q1 == (md * ScaleBase) \div mx
        r1 == (md * ScaleBase) % mx
        q2 == (r1 * ScaleBase) \div mx
    IN  IF md >= 2 * mx THEN 2 * One ELSE (q1 * ScaleBase) + q2
InitScale(w, h, md) ==
    LET mx == Max(w, h)
        q1 == (md * ScaleBase) \div mx
        r1 == (md * ScaleBase) % mx
        q2 == (r1 * ScaleBase) \div mx
    IN  IF md >= mx THEN One ELSE (q1 * ScaleBase) + q2

\* scale *= 0.85                                              (line 94)
ShrinkNum == 85
ShrinkDen == 100
ShrinkScaleBroken(s) == s
ShrinkScale(s) ==
    ((s \div ScaleBase) * ShrinkNum * (ScaleBase \div ShrinkDen))
        + (((s % ScaleBase) * ShrinkNum) \div ShrinkDen)

\* scale <= 0.2, 0.2 = 1 / MinScaleInv                        (line 95)
MinScaleInv == 5
ScaleAtFloor(s) == s * MinScaleInv <= One

(* int(x * scale).  The model's scale is the exact product truncated to
   1/ScaleUnit, at most 7 units below it (each of the at most eleven
   truncations loses less than one unit and later factors of 0.85 shrink it);
   the double of the source is within 10^-3 units of the exact product.  So
   int(x * scale) is the floor of the model's product, except that it may be
   one more when the product is within 7x+1 units below an integer, and one
   less when the product is an exact integer (the double may fall just
   short of it, as 400 * 0.7225 = 288.99999999999994 does).  Both outcomes
   are kept. *)
IntTimes(x, s) ==
    LET lopart == x * (s % ScaleBase)
        t      == (x * (s \div ScaleBase)) + (lopart \div ScaleBase)
        a      == t \div ScaleBase
        frac   == ((t % ScaleBase) * ScaleBase) + (lopart % ScaleBase)
    IN  {a} \cup (IF frac = 0 THEN {a - 1} ELSE {})
            \cup (IF frac >= ScaleUnit - (7 * x + 1) THEN {a + 1} ELSE {})

\* img.resize((max(1, int(w*scale)), max(1, int(h*scale))))   (lines 71-73)
Resized(sz, s) ==
    IF s < One
    THEN { [w |-> Max(1, a), h |-> Max(1, b)] :
              a \in IntTimes(sz.w, s), b \in IntTimes(sz.h, s) }
    ELSE { sz }

LongSide(sz) == Max(sz.w, sz.h)

----------------------------------------------------------------------------
(* The JPEG encoder (PIL).  len(jpeg_bytes(im, quality)): a header plus a
   payload that grows with the pixel count, the image's complexity and the
   quality.  An image with r.dip encodes quality 95 as small as quality 10:
   an encoder whose size is not monotone in the quality. *)
JpegLen(r, sz, q) ==
    LET payload(qq) == (sz.w * sz.h * r.c * qq) \div 1500
    IN  300 + (IF r.dip /\ q = QualityHi THEN payload(QualityLo) ELSE payload(q))

\* jpeg_bytes(im, quality)                                    (lines 65-68)
jpeg_bytes(r, sz, q) ==
    [kind |-> "jpeg", w |-> sz.w, h |-> sz.h, q |-> q, len |-> JpegLen(r, sz, q)]

\* size_kb <= target_kb, with size_kb = len(data) / 1024      (lines 81-82)
WithinBudgetBroken(len, tkb) == len <= (tkb + 1) * BytesPerKb
WithinBudget(len, tkb) == len <= tkb * BytesPerKb

\* best_size_kb > target_kb                                   (line 102)
OverBudget(len, tkb) == len > tkb * BytesPerKb

\* q = (lo + hi) // 2                                         (line 79)
MidLowest(l, h) == l
Mid(l, h) == (l + h) \div 2

\* while lo <= hi                                             (line 78)
SearchOpenStrict(l, h) == l < h
SearchOpen(l, h) == l <= h

----------------------------------------------------------------------------
(* generate_image_bytes: what it passes on and what it returns *)

\* mime_type = "image/png", replaced by inline.mime_type when the part
\* gives one                                                  (lines 210, 227-228)
ResponseMime(m) == IF m # "" THEN m ELSE "image/png"

\* compressed, mime_type = compress_to_jpeg(...); return compressed, mime_type
\*                                                            (lines 244-245)
ReturnedMimeKept(own, r) == own
ReturnedMime(own, r) == r.mime

\* The MIME type compress_to_jpeg declares                    (lines 104, 105)
JpegMime == "image/jpeg"

\* The raw input bytes, as a value that can be returned       (line 105)
RawBytes(r) == [kind |-> "raw", w |-> r.w, h |-> r.h, q |-> 0, len |-> 1]

----------------------------------------------------------------------------
(* Initial states: one call, with its arguments and its input *)

Inputs ==
    { [decodable |-> TRUE, w |-> s[1], h |-> s[2], c |-> c, dip |-> d] :
          s \in ImageSizes, c \in Complexities, d \in BOOLEAN }
    \cup { [decodable |-> FALSE, w |-> 0, h |-> 0, c |-> 1, dip |-> FALSE] }

InitJpeg ==
    /\ caller \in {"compress_to_jpeg", "generate_image_bytes"}
    /\ raw \in Inputs
    /\ target_kb \in TargetKbs
    /\ max_dim \in (IF caller = "generate_image_bytes"
                    THEN {DefaultMaxDim} ELSE MaxDims)
    /\ resp_mime \in (IF caller = "generate_image_bytes" THEN RespMimes ELSE {""})
    /\ pc = (IF caller = "generate_image_bytes" THEN "extract" ELSE "decode")
    /\ mime_type = ""
    /\ img = NoSize
    /\ scale = 0
    /\ work = NoSize
    /\ lo = 0
    /\ hi = 0
    /\ local_best = NoBytes
    /\ local_size = -1
    /\ best_bytes = NoBytes
    /\ best_size_kb = -1
    /\ warned = FALSE
    /\ ret = NoRet
    /\ gen_ret = NoRet
    /\ via = ""
    /\ outer = 0
    /\ first_work = NoSize
    /\ probes = <<>>
    /\ encodes = 0

----------------------------------------------------------------------------
(* Actions *)

\* generate_image_bytes up to the call of compress_to_jpeg: the part found
\* carries the image and possibly a MIME type.
Extract ==
    /\ pc = "extract"
    /\ mime_type' = ResponseMime(resp_mime)
    /\ pc' = "decode"
    /\ UNCHANGED <<caller, raw, target_kb, max_dim, resp_mime, img, scale, work,
                   lo, hi, local_best, local_size, best_bytes, best_size_kb,
                   warned, ret, gen_ret, via, outer, first_work, probes, encodes>>
    /\ UNCHANGED scriptVars
    /\ UNCHANGED fnVars

\* Image.open(bio), img.convert("RGB"), w, h = img.size, scale = ...
Decode ==
    /\ pc = "decode"
    /\ raw.decodable
    /\ img' = [w |-> raw.w, h |-> raw.h]
    /\ scale' = InitScale(raw.w, raw.h, max_dim)
    /\ best_bytes' = NoBytes
    /\ best_size_kb' = -1
    /\ pc' = "resize"
    /\ UNCHANGED <<caller, raw, target_kb, max_dim, resp_mime, mime_type, work,
                   lo, hi, local_best, local_size, warned, ret, gen_ret, via,
                   outer, first_work, probes, encodes>>
    /\ UNCHANGED scriptVars
    /\ UNCHANGED fnVars

\* Image.open raises on bytes that are no image; nothing catches it.
DecodeFails ==
    /\ pc = "decode"
    /\ ~raw.decodable
    /\ pc' = "raised"
    /\ UNCHANGED <<caller, raw, target_kb, max_dim, resp_mime, mime_type, img,
                   scale, work, lo, hi, local_best, local_size, best_bytes,
                   best_size_kb, warned, ret, gen_ret, via, outer, first_work, probes,
                   encodes>>
    /\ UNCHANGED scriptVars
    /\ UNCHANGED fnVars

\* Top of the outer loop: work = img or img.resize(...); lo, hi = 10, 95
Resize ==
    /\ pc = "resize"
    /\ \E wk \in Resized(img, scale) :
          /\ work' = wk
          /\ first_work' = (IF outer = 0 THEN wk ELSE first_work)
    /\ outer' = outer + 1
    /\ lo' = QualityLo
    /\ hi' = QualityHi
    /\ local_best' = NoBytes
    /\ local_size' = -1
    /\ probes' = <<>>
    /\ pc' = "search"
    /\ UNCHANGED <<caller, raw, target_kb, max_dim, resp_mime, mime_type, img,
                   scale, best_bytes, best_size_kb, warned, ret, gen_ret, via,
                   encodes>>
    /\ UNCHANGED scriptVars
    /\ UNCHANGED fnVars

\* One iteration of while lo <= hi
Probe ==
    /\ pc = "search"
    /\ SearchOpen(lo, hi)
    /\ LET q    == Mid(lo, hi)
           data == jpeg_bytes(raw, work, q)
       IN  /\ probes' = Append(probes, q)
           /\ encodes' = encodes + 1
           /\ IF WithinBudget(data.len, target_kb)
              THEN /\ local_best' = data
                   /\ local_size' = data.len
                   /\ hi' = q - 1
                   /\ lo' = lo
              ELSE /\ lo' = q + 1
                   /\ UNCHANGED <<hi, local_best, local_size>>
    /\ UNCHANGED <<pc, caller, raw, target_kb, max_dim, resp_mime, mime_type,
                   img, scale, work, best_bytes, best_size_kb, warned, ret,
                   gen_ret, via, outer, first_work>>
    /\ UNCHANGED scriptVars
    /\ UNCHANGED fnVars

\* if local_best: best_bytes, best_size_kb = local_best, local_size; break
Found ==
    /\ pc = "search"
    /\ ~SearchOpen(lo, hi)
    /\ Truthy(local_best)
    /\ best_bytes' = local_best
    /\ best_size_kb' = local_size
    /\ via' = "found"
    /\ pc' = "ret"
    /\ UNCHANGED <<caller, raw, target_kb, max_dim, resp_mime, mime_type, img,
                   scale, work, lo, hi, local_best, local_size, warned, ret,
                   gen_ret, outer, first_work, probes, encodes>>
    /\ UNCHANGED scriptVars
    /\ UNCHANGED fnVars

\* The test of line 95, made on the scale already multiplied by 0.85 and on
\* the working image just searched
MustFallBack(wk, s) == LongSide(wk) <= min_dim \/ ScaleAtFloor(s)

\* scale *= 0.85, and the loop goes round
Shrink ==
    /\ pc = "search"
    /\ ~SearchOpen(lo, hi)
    /\ ~Truthy(local_best)
    /\ ~MustFallBack(work, ShrinkScale(scale))
    /\ scale' = ShrinkScale(scale)
    /\ pc' = "resize"
    /\ UNCHANGED <<caller, raw, target_kb, max_dim, resp_mime, mime_type, img,
                   work, lo, hi, local_best, local_size, best_bytes,
                   best_size_kb, warned, ret, gen_ret, via, outer, first_work, probes,
                   encodes>>
    /\ UNCHANGED scriptVars
    /\ UNCHANGED fnVars

\* scale *= 0.85; fallback = jpeg_bytes(work, 10); break
Fallback ==
    /\ pc = "search"
    /\ ~SearchOpen(lo, hi)
    /\ ~Truthy(local_best)
    /\ MustFallBack(work, ShrinkScale(scale))
    /\ scale' = ShrinkScale(scale)
    /\ LET fallback == jpeg_bytes(raw, work, QualityLo)
       IN  /\ best_bytes' = fallback
           /\ best_size_kb' = fallback.len
    /\ encodes' = encodes + 1
    /\ via' = "fallback"
    /\ pc' = "ret"
    /\ UNCHANGED <<caller, raw, target_kb, max_dim, resp_mime, mime_type, img,
                   work, lo, hi, local_best, local_size, warned, ret, gen_ret,
                   outer, first_work, probes>>
    /\ UNCHANGED scriptVars
    /\ UNCHANGED fnVars

\* Lines 101-105: the warning and the two return statements
Return ==
    /\ pc = "ret"
    /\ IF Truthy(best_bytes) /\ best_size_kb # -1
       THEN /\ warned' = OverBudget(best_size_kb, target_kb)
            /\ ret' = [bytes |-> best_bytes, mime |-> JpegMime]
       ELSE /\ warned' = warned
            /\ ret' = [bytes |-> RawBytes(raw), mime |-> JpegMime]
    /\ pc' = (IF caller = "generate_image_bytes" THEN "gen_return" ELSE "done")
    /\ UNCHANGED <<caller, raw, target_kb, max_dim, resp_mime, mime_type, img,
                   scale, work, lo, hi, local_best, local_size, best_bytes,
                   best_size_kb, gen_ret, via, outer, first_work, probes, encodes>>
    /\ UNCHANGED scriptVars
    /\ UNCHANGED fnVars

\* generate_image_bytes: compressed, mime_type = ...; return compressed, mime_type
GenReturn ==
    /\ pc = "gen_return"
    /\ mime_type' = ReturnedMime(mime_type, ret)
    /\ gen_ret' = [bytes |-> ret.bytes, mime |-> ReturnedMime(mime_type, ret)]
    /\ pc' = "done"
    /\ UNCHANGED <<caller, raw, target_kb, max_dim, resp_mime, img, scale, work,
                   lo, hi, local_best, local_size, best_bytes, best_size_kb,
                   warned, ret, via, outer, first_work, probes, encodes>>
    /\ UNCHANGED scriptVars
    /\ UNCHANGED fnVars

NextJpeg ==
    \/ Extract
    \/ Decode
    \/ DecodeFails
    \/ Resize
    \/ Probe
    \/ Found
    \/ Shrink
    \/ Fallback
    \/ Return
    \/ GenReturn

----------------------------------------------------------------------------
(* Vocabulary of the claims about compress_to_jpeg *)

Qualities == QualityLo .. QualityHi
Budget == target_kb * BytesPerKb

\* compress_to_jpeg has returned
Returned == ret # NoRet

\* Some quality of [10, 95] encodes the working image sz within the budget
Fits(sz, q) == JpegLen(raw, sz, q) <= Budget
SomeQualityFits(sz) == \E q \in Qualities : Fits(sz, q)
HighestFittingQuality(sz) ==
    CHOOSE q \in Qualities : Fits(sz, q) /\ \A p \in Qualities : Fits(sz, p) => p <= q

\* The encoded size of sz is non-decreasing in the quality
Monotone(sz) ==
    \A q \in QualityLo .. (QualityHi - 1) : JpegLen(raw, sz, q) <= JpegLen(raw, sz, q + 1)

SearchOver == pc = "search" /\ lo > hi

(* C1: for every decodable image and every target_kb >= 1 the call returns
   an encoded (JPEG, non-empty) result and never raises; the scale strictly
   decreases on every outer iteration; the loop is left with a candidate
   within the budget or through the quality-10 fallback. *)
C1_TerminatesWithResult ==
    /\ raw.decodable => <>(Returned /\ ret.bytes.kind = "jpeg" /\ ret.bytes.len > 0)
    /\ [](raw.decodable => pc # "raised")
    /\ [][(pc = "search" /\ pc' = "resize") => scale' < scale]_jpegVars
    /\ [](pc = "ret" =>
            \/ via = "found" /\ best_bytes.len <= Budget
            \/ via = "fallback" /\ best_bytes.q = QualityLo)

\* An unreachable target: several scales were searched, the fallback was
\* taken, and the over-budget result was returned.
C1_Witness ==
    /\ pc = "done"
    /\ via = "fallback"
    /\ outer > 1
    /\ ret.bytes.len > Budget
    /\ ret.bytes.kind = "jpeg"

(* C2: when some quality fits the budget at the initial scale and the
   encoded size is non-decreasing in the quality, the result returned is
   the encoding at the highest fitting quality at that scale. *)
C2_HighestFittingQualityReturned ==
    (Returned /\ Monotone(first_work) /\ SomeQualityFits(first_work))
        => ret.bytes = jpeg_bytes(raw, first_work, HighestFittingQuality(first_work))

(* C3: the scale is shrunk (or the fallback taken) only when no quality of
   [10, 95] fits at the current scale: with a monotone encoder, a search that
   ends where some quality fits ends with a candidate. *)
C3_ShrinkOnlyWhenNothingFits ==
    (SearchOver /\ Monotone(work) /\ SomeQualityFits(work)) => Truthy(local_best)

(* C4: a result of the binary search is within the budget; only the
   fallback returns an over-budget result; the warning is printed exactly
   when the returned size exceeds the budget, and the call still returns. *)
C4_OverBudgetOnlyByFallback ==
    Returned =>
        /\ via = "found" => ret.bytes.len <= target_kb * BytesPerKb
        /\ ret.bytes.len > target_kb * BytesPerKb => via = "fallback"
        /\ warned <=> ret.bytes.len > target_kb * BytesPerKb
        /\ ret.bytes.kind = "jpeg"
        /\ pc # "raised"

C4_Witness ==
    /\ pc = "done"
    /\ via = "fallback"
    /\ warned
    /\ ret.bytes.len > target_kb * BytesPerKb

(* C5: no binary search and no encode is made on a downscaled working
   image whose longer side is below 320px. *)
C5_NoSearchBelowMinDim ==
    (pc = "search" /\ outer > 1) => LongSide(work) >= min_dim

(* C6: the scale never exceeds 1.0, the first working image is the image
   itself when it is within max_dim and otherwise has max_dim (less the
   float's rounding, one pixel) as its longer side, and no working image is
   longer than min(max(w, h), max_dim). *)
C6_NeverUpscaled ==
    /\ scale <= One
    /\ outer >= 1 =>
          /\ LongSide(work) <= Min(LongSide(img), max_dim)
          /\ LongSide(first_work) <= Min(LongSide(img), max_dim)
          /\ LongSide(first_work) >= Min(LongSide(img), max_dim) - 1
          /\ max_dim >= LongSide(img) => first_work = img

\* 4000x3000 with max_dim = 1600: searched at a long side of at most 1600
C6_Witness ==
    /\ pc = "search"
    /\ img = [w |-> 4000, h |-> 3000]
    /\ max_dim = 1600
    /\ outer = 1
    /\ LongSide(work) \in {1599, 1600}
    /\ probes # <<>>

(* C7: if the first working image encodes within the budget at quality 95,
   the call returns from the first binary search: one outer iteration, no
   shrink of the scale, a result within the budget; an image within max_dim
   keeps scale 1.0 and its size. *)
C7_FitsAtTopQualityNoDownscale ==
    (outer >= 1 /\ JpegLen(raw, first_work, QualityHi) <= target_kb * BytesPerKb) =>
        /\ outer = 1
        /\ via # "fallback"
        /\ pc # "resize"
        /\ max_dim >= LongSide(img) => scale = One /\ work = img
        /\ Returned =>
              /\ via = "found"
              /\ ret.bytes.len <= target_kb * BytesPerKb
              /\ ret.bytes.w = first_work.w /\ ret.bytes.h = first_work.h

\* The spec's scenario: 200x150, within 50KB at quality 95
C7_Witness ==
    /\ pc = "done"
    /\ img = [w |-> 200, h |-> 150]
    /\ target_kb = 50
    /\ JpegLen(raw, first_work, QualityHi) <= target_kb * BytesPerKb
    /\ scale = One
    /\ via = "found"

(* C8: every return of compress_to_jpeg declares "image/jpeg", and
   generate_image_bytes returns that type whatever the response declared. *)
C8_AlwaysJpegMime ==
    /\ Returned => ret.mime = "image/jpeg"
    /\ gen_ret # NoRet => gen_ret.mime = "image/jpeg" /\ mime_type = "image/jpeg"

C8_Witness ==
    /\ pc = "done"
    /\ caller = "generate_image_bytes"
    /\ resp_mime = "image/webp"
    /\ via = "fallback"
    /\ gen_ret.mime = "image/jpeg"

(***************************************************************************)
(*                       PART II : the script runs                         *)
(***************************************************************************)

(* Bounds *)
MaxItems == 2
MaxContent == 2
MaxRuns == 2

CredNames ==
    {"OPENAI_API_KEY", "GOOGLE_API_KEY", "GOOLE_API_KEY",
     "VITE_SUPABASE_URL", "VITE_SUPABASE_ANON_KEY"}

BatchScripts == {"gen_quiz_images", "gen_deck_dot_images", "gen_deck_map_refs"}

\* Values of a credential: 0 = absent, 1 = the value os.environ holds,
\* 2 = the value the .env.local line holds.
EnvValue == 1
FileValue == 2
NoEnv == [n \in CredNames |-> 0]

----------------------------------------------------------------------------
(* Credential loading *)

load_env_overriding(e, f) == [n \in CredNames |-> IF f[n] # 0 THEN f[n] ELSE e[n]]
\* quizit_storage.load_env: dict(os.environ), then setdefault per line
load_env(e, f) == [n \in CredNames |-> IF e[n] # 0 THEN e[n] ELSE f[n]]

\* quizit_storage.get_sp_client: if not url or not key: sys.exit(1)
SupabaseMissingBothOnly(m) ==
    m["VITE_SUPABASE_URL"] = 0 /\ m["VITE_SUPABASE_ANON_KEY"] = 0
SupabaseMissing(m) ==
    m["VITE_SUPABASE_URL"] = 0 \/ m["VITE_SUPABASE_ANON_KEY"] = 0

\* gen_image.load_google_api_key: either spelling, the environment first,
\* then the first matching line of .env.local (0 = no key: sys.exit(1))
load_google_api_key(e, f) ==
    IF e["GOOGLE_API_KEY"] # 0 THEN e["GOOGLE_API_KEY"]
    ELSE IF e["GOOLE_API_KEY"] # 0 THEN e["GOOLE_API_KEY"]
    ELSE IF f["GOOGLE_API_KEY"] # 0 THEN f["GOOGLE_API_KEY"]
    ELSE f["GOOLE_API_KEY"]

\* get_openai_client(env): api_key = env.get("OPENAI_API_KEY")
OpenAIKey(m) == m["OPENAI_API_KEY"]

----------------------------------------------------------------------------
(* Items, cache files, uploads *)

ItemIds == 1 .. MaxItems
Contents == 1 .. MaxContent

\* The cards a title can resolve to: ids 1..n in order, each with a front
\* (a keyword / an image tag) or without one.
CardLists ==
    UNION { { [k \in 1 .. n |-> [id |-> k, front |-> fr[k]]] :
                fr \in [1 .. n -> BOOLEAN] } : n \in 0 .. MaxItems }

NoFile == [stem |-> "", idx |-> -1, ext |-> ""]
NoCur ==
    [id |-> 0, item |-> FALSE, cached |-> FALSE, gen |-> FALSE, outcome |-> "",
     content |-> 0, wrote |-> FALSE, uploads |-> <<>>]

\* The item reached: what main() knows after looking for its cache file
ReachedBlind(c, ch) ==
    [id |-> c.id, item |-> TRUE, cached |-> FALSE, gen |-> FALSE,
     outcome |-> "", content |-> 0, wrote |-> FALSE, uploads |-> <<>>]
Reached(c, ch) ==
    [id |-> c.id, item |-> TRUE, cached |-> ch[c.id] # 0, gen |-> FALSE,
     outcome |-> "", content |-> ch[c.id], wrote |-> FALSE, uploads |-> <<>>]

\* upload_to_storage: ct = content_type, or by the filename's extension
UploadContentType(file, ct) ==
    IF ct # "" THEN ct
    ELSE IF file.ext = "dot" THEN "text/dot" ELSE "application/octet-stream"

\* upload_to_storage(card_id, content, filename, content_type): the upload
\* made, and whether it went through
Upload(card, content, file, ct, ok) ==
    [card |-> card, file |-> file, content |-> content,
     ctype |-> UploadContentType(file, ct), ok |-> ok]

\* gen_quiz_images: local_path.write_bytes(img_bytes), the file of item id
\* now holding the content n
write_bytes_skipped(ch, id, n) == ch
write_bytes(ch, id, n) == [ch EXCEPT ![id] = n]

\* The condition under which each script calls its generation function for
\* an item whose cache file is absent
\* gen_quiz_images: elif args.doit
QuizGeneratesAlways(a) == TRUE
QuizGenerates(a) == a.doit
\* gen_deck_dot_images: elif oa_client and args.store_id
DotGenerates(client, a) == client /\ a.store_id
\* gen_deck_map_refs: elif oa_client
MapGenerates(client) == client

\* gen_quiz_images: except RuntimeError -- the exceptions the call site of
\* generate_image_bytes catches
QuizCatchesNothing(exc) == FALSE
QuizCatchesAll(exc) == TRUE
QuizCatches(exc) == exc = "runtime_error"

\* json.loads(map_ref_text): what each content parses to.  Content 1 is no
\* JSON list (text that does not parse, or a single object); the others are
\* lists, each element being an object with its keys or something else.
KeysNeeded == {"map_file", "name", "page", "position"}
Obj(keys) == [dict |-> TRUE, keys |-> keys]
NotObj == [dict |-> FALSE, keys |-> {}]
Parsed(c) ==
    CASE c = 1 -> [list |-> FALSE, elems |-> <<>>]
      [] c = 2 -> [list |-> TRUE,
                   elems |-> <<Obj({"map_file", "name", "page"}),
                               Obj(KeysNeeded \cup {"note"}),
                               NotObj>>]
      [] c = 3 -> [list |-> TRUE,
                   elems |-> <<Obj(KeysNeeded), NotObj, Obj(KeysNeeded)>>]
      [] OTHER -> [list |-> TRUE, elems |-> <<Obj({"name"})>>]

\* isinstance(map_ref_parsed, list)
IsJsonList(c) == Parsed(c).list
\* isinstance(ref, dict) and all(k in ref for k in (...))     (lines 244-249)
ValidRefAnyObject(ref) == ref.dict
ValidRef(ref) == ref.dict /\ KeysNeeded \subseteq ref.keys
RefsValid(c) == [i \in 1 .. Len(Parsed(c).elems) |-> ValidRef(Parsed(c).elems[i])]

\* Arguments each script can be started with
ArgsOf(sc) ==
    CASE sc = "gen_quiz_images" ->
            { [doit |-> d, subject |-> sb, store_id |-> FALSE, title_ok |-> TRUE] :
                 d \in BOOLEAN, sb \in BOOLEAN }
      [] sc = "gen_deck_dot_images" ->
            { [doit |-> FALSE, subject |-> FALSE, store_id |-> st, title_ok |-> TRUE] :
                 st \in BOOLEAN }
      [] sc = "gen_deck_map_refs" ->
            { [doit |-> FALSE, subject |-> FALSE, store_id |-> FALSE, title_ok |-> t] :
                 t \in BOOLEAN }
      [] OTHER ->
            { [doit |-> FALSE, subject |-> FALSE, store_id |-> TRUE, title_ok |-> TRUE] }

----------------------------------------------------------------------------
(* Actions of the batch scripts *)

\* gen_quiz_images.main, lines 98-102: --doit needs --subject
StartQuiz ==
    /\ script = "gen_quiz_images"
    /\ spc = "start"
    /\ IF argv.doit /\ ~argv.subject
       THEN /\ spc' = "exited"
            /\ exit_status' = 2
            /\ stderr' = stderr \cup {"subject_required"}
       ELSE /\ spc' = "fetch"
            /\ UNCHANGED <<exit_status, stderr>>
    /\ UNCHANGED <<script, argv, environ, envfile, env, oa_client, cards, pos,
                   cache, cur, log, lookups, runs, unsent>>
    /\ UNCHANGED jpegVars
    /\ UNCHANGED fnVars

\* gen_deck_dot_images.main, lines 141-142: the OpenAI client is made only
\* with --store-id, and its key is then required (get_openai_client exits)
StartDot ==
    /\ script = "gen_deck_dot_images"
    /\ spc = "start"
    /\ env' = load_env(environ, envfile)
    /\ IF argv.store_id
       THEN /\ lookups' = Append(lookups, [cred |-> "OPENAI", found |-> OpenAIKey(env') # 0])
            /\ IF OpenAIKey(env') = 0
               THEN /\ spc' = "exited"
                    /\ exit_status' = 1
                    /\ stderr' = stderr \cup {"openai_key_required"}
                    /\ oa_client' = FALSE
               ELSE /\ spc' = "fetch"
                    /\ oa_client' = TRUE
                    /\ UNCHANGED <<exit_status, stderr>>
       ELSE /\ spc' = "fetch"
            /\ oa_client' = FALSE
            /\ UNCHANGED <<exit_status, stderr, lookups>>
    /\ UNCHANGED <<script, argv, environ, envfile, cards, pos, cache, cur, log,
                   runs, unsent>>
    /\ UNCHANGED jpegVars
    /\ UNCHANGED fnVars

\* gen_deck_map_refs.main, lines 197-202: the title check, then a client
\* that is None (with a warning) when the key is missing
StartMap ==
    /\ script = "gen_deck_map_refs"
    /\ spc = "start"
    /\ IF ~argv.title_ok
       THEN /\ spc' = "exited"
            /\ exit_status' = 1
            /\ stderr' = stderr \cup {"title_not_geography"}
            /\ UNCHANGED <<env, oa_client, lookups>>
       ELSE /\ env' = load_env(environ, envfile)
            /\ lookups' = Append(lookups, [cred |-> "OPENAI", found |-> OpenAIKey(env') # 0])
            /\ oa_client' = (OpenAIKey(env') # 0)
            /\ stderr' = (IF OpenAIKey(env') = 0
                          THEN stderr \cup {"openai_key_missing_generation_skipped"}
                          ELSE stderr)
            /\ spc' = "fetch"
            /\ UNCHANGED exit_status
    /\ UNCHANGED <<script, argv, environ, envfile, cards, pos, cache, cur, log,
                   runs, unsent>>
    /\ UNCHANGED jpegVars
    /\ UNCHANGED fnVars

\* fetch_cards_by_quiz_title / fetch_cards_by_deck_title: get_sp_client()
\* exits without the Supabase settings; no cards ends the run
FetchCards ==
    /\ script \in BatchScripts
    /\ spc = "fetch"
    /\ LET m == load_env(environ, envfile)
       IN  /\ lookups' = Append(lookups, [cred |-> "SUPABASE", found |-> ~SupabaseMissing(m)])
           /\ IF SupabaseMissing(m)
              THEN /\ spc' = "exited"
                   /\ exit_status' = 1
                   /\ stderr' = stderr \cup {"supabase_settings_required"}
                   /\ pos' = pos
              ELSE IF cards = <<>>
              THEN /\ spc' = "exited"
                   /\ exit_status' = (IF script = "gen_quiz_images" THEN 1 ELSE 0)
                   /\ stderr' = (IF script = "gen_quiz_images"
                                 THEN stderr \cup {"no_cards"} ELSE stderr)
                   /\ pos' = pos
              ELSE /\ spc' = "item"
                   /\ pos' = 1
                   /\ UNCHANGED <<exit_status, stderr>>
    /\ UNCHANGED <<script, argv, environ, envfile, env, oa_client, cards, cache,
                   cur, log, runs, unsent>>
    /\ UNCHANGED jpegVars
    /\ UNCHANGED fnVars

\* gen_quiz_images.main, lines 111-140: one image of a card; the cache file
\* is looked for first, generation wants --doit, otherwise the image is
\* skipped.  Cards without an image tag are passed over.
QuizItem ==
    /\ script = "gen_quiz_images"
    /\ spc = "item"
    /\ pos <= Len(cards)
    /\ LET c == cards[pos]
           r == Reached(c, cache)
       IN  IF ~c.front
           THEN /\ log' = Append(log, [NoCur EXCEPT !.id = c.id])
                /\ pos' = pos + 1
                /\ UNCHANGED <<spc, cur>>
           ELSE IF r.cached
           THEN /\ cur' = [r EXCEPT !.outcome = "cache"]
                /\ spc' = "store"
                /\ UNCHANGED <<log, pos>>
           ELSE IF QuizGenerates(argv)
           THEN /\ cur' = r
                /\ spc' = "generate"
                /\ UNCHANGED <<log, pos>>
           ELSE /\ log' = Append(log, [r EXCEPT !.outcome = "skip"])
                /\ pos' = pos + 1
                /\ UNCHANGED <<spc, cur>>
    /\ UNCHANGED <<script, argv, environ, envfile, env, oa_client, cards, cache,
                   exit_status, stderr, lookups, runs, unsent>>
    /\ UNCHANGED jpegVars
    /\ UNCHANGED fnVars

\* gen_quiz_images.main, lines 131-137, with gen_image.generate_image_bytes:
\* a missing package or a failed API call is a RuntimeError (caught: the
\* image is passed over), a missing key ends the process, undecodable bytes
\* raise out of compress_to_jpeg, and otherwise the bytes are cached.
QuizGenerate ==
    /\ script = "gen_quiz_images"
    /\ spc = "generate"
    /\ LET key == load_google_api_key(environ, envfile)
           g == [cur EXCEPT !.gen = TRUE]
       IN  \/ /\ \E exc \in {"runtime_error"}
                           \cup (IF key # 0 THEN {"decode_error"} ELSE {}) :
                    /\ log' = Append(log, [g EXCEPT !.outcome = exc])
                    /\ IF QuizCatches(exc)
                       THEN /\ stderr' = stderr \cup {"generation_failed"}
                            /\ pos' = pos + 1
                            /\ spc' = "item"
                            /\ UNCHANGED exit_status
                       ELSE /\ spc' = "crashed"
                            /\ exit_status' = 1
                            /\ UNCHANGED <<pos, stderr>>
              /\ lookups' = (IF key # 0
                             THEN Append(lookups, [cred |-> "GOOGLE", found |-> TRUE])
                             ELSE lookups)
              /\ cur' = NoCur
              /\ UNCHANGED cache
           \/ /\ key = 0
              /\ lookups' = Append(lookups, [cred |-> "GOOGLE", found |-> FALSE])
              /\ log' = Append(log, [g EXCEPT !.outcome = "exit"])
              /\ stderr' = stderr \cup {"google_key_required"}
              /\ spc' = "exited"
              /\ exit_status' = 1
              /\ cur' = NoCur
              /\ UNCHANGED <<cache, pos>>
           \/ /\ key # 0
              /\ lookups' = Append(lookups, [cred |-> "GOOGLE", found |-> TRUE])
              /\ \E n \in Contents :
                    /\ cache' = write_bytes(cache, cur.id, n)
                    /\ cur' = [g EXCEPT !.outcome = "generated", !.content = n,
                                        !.wrote = TRUE]
              /\ spc' = "store"
              /\ UNCHANGED <<log, pos, stderr, exit_status>>
    /\ UNCHANGED <<script, argv, environ, envfile, env, oa_client, cards, runs, unsent>>
    /\ UNCHANGED jpegVars
    /\ UNCHANGED fnVars

\* gen_quiz_images.main, lines 142-143: upload as front{idx}.jpg with the
\* mime type of the bytes; a failed upload is reported and the loop goes on
QuizUpload ==
    /\ script = "gen_quiz_images"
    /\ spc = "store"
    /\ \E ok \in BOOLEAN :
          LET file == [stem |-> "front", idx |-> 1, ext |-> "jpg"]
              up == Upload(cur.id, cur.content, file, JpegMime, ok)
          IN  /\ log' = Append(log, [cur EXCEPT !.uploads = Append(@, up)])
              /\ stderr' = (IF ok THEN stderr ELSE stderr \cup {"upload_failed"})
              /\ unsent' = (IF cur.gen /\ ~ok
                            THEN unsent \cup {[run |-> runs, up |-> up]}
                            ELSE unsent)
    /\ pos' = pos + 1
    /\ cur' = NoCur
    /\ spc' = "item"
    /\ UNCHANGED <<script, argv, environ, envfile, env, oa_client, cards, cache,
                   exit_status, lookups, runs>>
    /\ UNCHANGED jpegVars
    /\ UNCHANGED fnVars

\* gen_deck_dot_images.main, lines 153-173: a card with a keyword; the cache
\* file first, then the vector store when a client and a store id are there
DotItem ==
    /\ script = "gen_deck_dot_images"
    /\ spc = "item"
    /\ pos <= Len(cards)
    /\ LET c == cards[pos]
           r == Reached(c, cache)
       IN  IF ~c.front
           THEN /\ log' = Append(log, [NoCur EXCEPT !.id = c.id])
                /\ pos' = pos + 1
                /\ UNCHANGED <<spc, cur>>
           ELSE IF r.cached
           THEN /\ cur' = [r EXCEPT !.outcome = "cache"]
                /\ spc' = "store"
                /\ UNCHANGED <<log, pos>>
           ELSE IF DotGenerates(oa_client, argv)
           THEN /\ cur' = r
                /\ spc' = "generate"
                /\ UNCHANGED <<log, pos>>
           ELSE /\ log' = Append(log, [r EXCEPT !.outcome = "skip"])
                /\ pos' = pos + 1
                /\ UNCHANGED <<spc, cur>>
    /\ UNCHANGED <<script, argv, environ, envfile, env, oa_client, cards, cache,
                   exit_status, stderr, lookups, runs, unsent>>
    /\ UNCHANGED jpegVars
    /\ UNCHANGED fnVars

\* gen_deck_dot_images.fetch_graph, lines 96-130, and "if graph:" of main:
\* an API error or a reply without text gives None and the card is left
DotGenerate ==
    /\ script = "gen_deck_dot_images"
    /\ spc = "generate"
    /\ LET g == [cur EXCEPT !.gen = TRUE]
       IN  \/ /\ \E why \in {"api_error", "no_text"} :
                    /\ log' = Append(log, [g EXCEPT !.outcome = why])
                    /\ stderr' = (IF why = "api_error"
                                  THEN stderr \cup {"generation_failed"}
                                  ELSE stderr)
              /\ pos' = pos + 1
              /\ cur' = NoCur
              /\ spc' = "item"
           \/ /\ \E n \in Contents :
                    cur' = [g EXCEPT !.outcome = "generated", !.content = n]
              /\ spc' = "store"
              /\ UNCHANGED <<log, pos, stderr>>
    /\ UNCHANGED <<script, argv, environ, envfile, env, oa_client, cards, cache,
                   exit_status, lookups, runs, unsent>>
    /\ UNCHANGED jpegVars
    /\ UNCHANGED fnVars

\* gen_deck_dot_images.main, lines 174-177: the graph is written to the
\* cache unless the file is there, and uploaded as back.dot
DotStore ==
    /\ script = "gen_deck_dot_images"
    /\ spc = "store"
    /\ cache' = (IF cache[cur.id] = 0 THEN [cache EXCEPT ![cur.id] = cur.content]
                 ELSE cache)
    /\ \E ok \in BOOLEAN :
          LET file == [stem |-> "back", idx |-> -1, ext |-> "dot"]
              up == Upload(cur.id, cur.content, file, "", ok)
          IN  /\ log' = Append(log, [cur EXCEPT !.uploads = Append(@, up),
                                                !.wrote = (cache[cur.id] = 0)])
              /\ stderr' = (IF ok THEN stderr ELSE stderr \cup {"upload_failed"})
    /\ pos' = pos + 1
    /\ cur' = NoCur
    /\ spc' = "item"
    /\ UNCHANGED <<script, argv, environ, envfile, env, oa_client, cards,
                   exit_status, lookups, runs, unsent>>
    /\ UNCHANGED jpegVars
    /\ UNCHANGED fnVars

\* gen_deck_map_refs.main, lines 242-253 and 263: the uploads of one map-ref
\* text, oks[i] telling whether the upload of element i went through
RECURSIVE ListUploads(_, _, _, _)
ListUploads(card, c, oks, i) ==
    IF i > Len(RefsValid(c)) THEN <<>>
    ELSE (IF RefsValid(c)[i]
          THEN <<Upload(card, c, [stem |-> "back", idx |-> i - 1, ext |-> "map"],
                        "", oks[i])>>
          ELSE <<>>) \o ListUploads(card, c, oks, i + 1)

MapUploads(card, c, oks) ==
    IF IsJsonList(c) THEN ListUploads(card, c, oks, 1)
    ELSE <<Upload(card, c, [stem |-> "back", idx |-> -1, ext |-> "map"], "", oks[1])>>

\* gen_deck_map_refs.main, lines 213-232: every card must have a front
\* (assert); the cache file first, then generation when there is a client
MapItem ==
    /\ script = "gen_deck_map_refs"
    /\ spc = "item"
    /\ pos <= Len(cards)
    /\ LET c == cards[pos]
           r == Reached(c, cache)
       IN  IF ~c.front
           THEN /\ log' = Append(log, [NoCur EXCEPT !.id = c.id, !.outcome = "assert"])
                /\ spc' = "crashed"
                /\ exit_status' = 1
                /\ UNCHANGED <<pos, cur>>
           ELSE IF r.cached
           THEN /\ cur' = [r EXCEPT !.outcome = "cache"]
                /\ spc' = "store"
                /\ UNCHANGED <<log, pos, exit_status>>
           ELSE IF MapGenerates(oa_client)
           THEN /\ cur' = r
                /\ spc' = "generate"
                /\ UNCHANGED <<log, pos, exit_status>>
           ELSE /\ log' = Append(log, [r EXCEPT !.outcome = "skip"])
                /\ pos' = pos + 1
                /\ UNCHANGED <<spc, cur, exit_status>>
    /\ UNCHANGED <<script, argv, environ, envfile, env, oa_client, cards, cache,
                   stderr, lookups, runs, unsent>>
    /\ UNCHANGED jpegVars
    /\ UNCHANGED fnVars

\* gen_deck_map_refs.make_map_refs, lines 158-188, and "if map_ref_text:"
MapGenerate ==
    /\ script = "gen_deck_map_refs"
    /\ spc = "generate"
    /\ LET g == [cur EXCEPT !.gen = TRUE]
       IN  \/ /\ \E why \in {"api_error", "no_text"} :
                    /\ log' = Append(log, [g EXCEPT !.outcome = why])
                    /\ stderr' = (IF why = "api_error"
                                  THEN stderr \cup {"generation_failed"}
                                  ELSE stderr)
              /\ pos' = pos + 1
              /\ cur' = NoCur
              /\ spc' = "item"
           \/ /\ \E n \in Contents :
                    cur' = [g EXCEPT !.outcome = "generated", !.content = n]
              /\ spc' = "store"
              /\ UNCHANGED <<log, pos, stderr>>
    /\ UNCHANGED <<script, argv, environ, envfile, env, oa_client, cards, cache,
                   exit_status, lookups, runs, unsent>>
    /\ UNCHANGED jpegVars
    /\ UNCHANGED fnVars

\* gen_deck_map_refs.main, lines 233-266: cache the text unless the file is
\* there, then upload it whole or element by element
MapStore ==
    /\ script = "gen_deck_map_refs"
    /\ spc = "store"
    /\ cache' = (IF cache[cur.id] = 0 THEN [cache EXCEPT ![cur.id] = cur.content]
                 ELSE cache)
    /\ \E oks \in [1 .. Max(1, Len(RefsValid(cur.content))) -> BOOLEAN] :
          LET ups == MapUploads(cur.id, cur.content, oks)
          IN  /\ log' = Append(log, [cur EXCEPT !.uploads = ups,
                                                !.wrote = (cache[cur.id] = 0)])
              /\ stderr' = (IF \A i \in 1 .. Len(ups) : ups[i].ok THEN stderr
                            ELSE stderr \cup {"upload_failed"})
    /\ pos' = pos + 1
    /\ cur' = NoCur
    /\ spc' = "item"
    /\ UNCHANGED <<script, argv, environ, envfile, env, oa_client, cards,
                   exit_status, lookups, runs, unsent>>
    /\ UNCHANGED jpegVars
    /\ UNCHANGED fnVars

\* The end of the loop over the cards: main returns, the status is 0
Finish ==
    /\ script \in BatchScripts
    /\ spc = "item"
    /\ pos > Len(cards)
    /\ spc' = "done"
    /\ exit_status' = 0
    /\ UNCHANGED <<script, argv, environ, envfile, env, oa_client, cards, pos,
                   cache, cur, log, stderr, lookups, runs, unsent>>
    /\ UNCHANGED jpegVars
    /\ UNCHANGED fnVars

\* The same script started again: the files under tmp/ are what the earlier
\* runs left; everything else starts afresh
NewRun ==
    /\ script \in BatchScripts
    /\ spc \in {"done", "exited", "crashed"}
    /\ runs < MaxRuns
    /\ runs' = runs + 1
    /\ argv' \in ArgsOf(script)
    /\ spc' = "start"
    /\ exit_status' = -1
    /\ stderr' = {}
    /\ env' = NoEnv
    /\ oa_client' = FALSE
    /\ pos' = 0
    /\ cur' = NoCur
    /\ log' = <<>>
    /\ lookups' = <<>>
    /\ UNCHANGED <<script, environ, envfile, cards, cache, unsent>>
    /\ UNCHANGED jpegVars
    /\ UNCHANGED fnVars

----------------------------------------------------------------------------
(* The scripts that make one API client and use it *)

SimpleScripts == {"ask_vs", "summary_vs", "openvs", "generate_image", "gen_image"}
AllScripts == BatchScripts \cup SimpleScripts

\* ask_vs.load_api_key, summary_vs.load_api_key, openvs.get_client:
\* os.getenv, then the OPENAI_API_KEY= line of .env.local
load_api_key(e, f) ==
    IF e["OPENAI_API_KEY"] # 0 THEN e["OPENAI_API_KEY"] ELSE f["OPENAI_API_KEY"]

\* generate_image.load_google_api_key: the one spelling only
load_google_api_key_strict(e, f) ==
    IF e["GOOGLE_API_KEY"] # 0 THEN e["GOOGLE_API_KEY"] ELSE f["GOOGLE_API_KEY"]

\* The key a script's loader comes back with (0 = none), and its credential
ScriptKey(sc, e, f) ==
    CASE sc = "generate_image" -> load_google_api_key_strict(e, f)
      [] sc = "gen_image" -> load_google_api_key(e, f)
      [] OTHER -> load_api_key(e, f)

ScriptCred(sc) ==
    IF sc \in {"generate_image", "gen_image"} THEN "GOOGLE" ELSE "OPENAI"

\* The credential names a script reads
Reads(sc) ==
    CASE sc = "gen_quiz_images" ->
            {"GOOGLE_API_KEY", "GOOLE_API_KEY", "VITE_SUPABASE_URL",
             "VITE_SUPABASE_ANON_KEY"}
      [] sc \in {"gen_deck_dot_images", "gen_deck_map_refs"} ->
            {"OPENAI_API_KEY", "VITE_SUPABASE_URL", "VITE_SUPABASE_ANON_KEY"}
      [] sc \in {"generate_image", "gen_image"} ->
            {"GOOGLE_API_KEY", "GOOLE_API_KEY"}
      [] OTHER -> {"OPENAI_API_KEY"}

\* ask_vs.ask / summary_vs.summarize / openvs.cmd_* / generate_image /
\* gen_image.main, up to the client: a missing package ends the image
\* scripts before the key is read; a missing key ends every one of them
SimpleLookup ==
    /\ script \in SimpleScripts
    /\ spc = "start"
    /\ script = "ask_vs" => pos < MaxItems
    /\ \/ /\ script \in {"generate_image", "gen_image"}
          /\ spc' = "exited"
          /\ exit_status' = 1
          /\ stderr' = stderr \cup {"package_missing"}
          /\ UNCHANGED lookups
       \/ LET key == ScriptKey(script, environ, envfile)
          IN  /\ lookups' = Append(lookups, [cred |-> ScriptCred(script), found |-> key # 0])
              /\ IF key = 0
                 THEN /\ spc' = "exited"
                      /\ exit_status' = 1
                      /\ stderr' = stderr \cup {"api_key_required"}
                 ELSE /\ spc' = "call"
                      /\ UNCHANGED <<exit_status, stderr>>
    /\ UNCHANGED <<script, argv, environ, envfile, env, oa_client, cards, pos,
                   cache, cur, log, runs, unsent>>
    /\ UNCHANGED jpegVars
    /\ UNCHANGED fnVars

\* The API call of the simple scripts: a failure is reported and ends the
\* process with status 1; ask_vs prompts again after an answer
SimpleCall ==
    /\ script \in SimpleScripts
    /\ spc = "call"
    /\ \/ /\ spc' = "exited"
          /\ exit_status' = 1
          /\ stderr' = stderr \cup {"api_failed"}
          /\ pos' = pos
       \/ /\ script = "gen_image"
          /\ spc' = "crashed"
          /\ exit_status' = 1
          /\ UNCHANGED <<stderr, pos>>
       \/ /\ IF script = "ask_vs"
             THEN /\ spc' = "start"
                  /\ pos' = pos + 1
                  /\ UNCHANGED exit_status
             ELSE /\ spc' = "done"
                  /\ exit_status' = 0
                  /\ pos' = pos
          /\ UNCHANGED stderr
    /\ UNCHANGED <<script, argv, environ, envfile, env, oa_client, cards, cache,
                   cur, log, lookups, runs, unsent>>
    /\ UNCHANGED jpegVars
    /\ UNCHANGED fnVars

\* ask_vs.main, lines 95-98: Ctrl+C at the prompt leaves the loop
AskInterrupt ==
    /\ script = "ask_vs"
    /\ spc = "start"
    /\ spc' = "done"
    /\ exit_status' = 0
    /\ UNCHANGED <<script, argv, environ, envfile, env, oa_client, cards, pos,
                   cache, cur, log, stderr, lookups, runs, unsent>>
    /\ UNCHANGED jpegVars
    /\ UNCHANGED fnVars

----------------------------------------------------------------------------
(* Initial states and specifications *)

\* Mappings that set names of ns to v and nothing else
Envs(ns, v) ==
    { m \in [CredNames -> {0, v}] : \A n \in CredNames \ ns : m[n] = 0 }

\* A process that has just started
Started ==
    /\ spc = "start"
    /\ exit_status = -1
    /\ stderr = {}
    /\ env = NoEnv
    /\ oa_client = FALSE
    /\ pos = 0
    /\ cur = NoCur
    /\ log = <<>>
    /\ lookups = <<>>

\* No image is being compressed
IdleJpeg ==
    /\ pc = "idle"
    /\ caller = "none"
    /\ raw = [decodable |-> FALSE, w |-> 0, h |-> 0, c |-> 1, dip |-> FALSE]
    /\ target_kb = DefaultTargetKb
    /\ max_dim = DefaultMaxDim
    /\ resp_mime = ""
    /\ mime_type = ""
    /\ img = NoSize
    /\ scale = 0
    /\ work = NoSize
    /\ lo = 0
    /\ hi = 0
    /\ local_best = NoBytes
    /\ local_size = -1
    /\ best_bytes = NoBytes
    /\ best_size_kb = -1
    /\ warned = FALSE
    /\ ret = NoRet
    /\ gen_ret = NoRet
    /\ via = ""
    /\ outer = 0
    /\ first_work = NoSize
    /\ probes = <<>>
    /\ encodes = 0

\* No helper is being called
NoOut == [called |-> FALSE]
IdleFn ==
    /\ fn = ""
    /\ arg = <<>>
    /\ out = NoOut

\* No script is running
IdleScripts ==
    /\ script = "none"
    /\ argv = [doit |-> FALSE, subject |-> FALSE, store_id |-> FALSE, title_ok |-> TRUE]
    /\ environ = NoEnv
    /\ envfile = NoEnv
    /\ cards = <<>>
    /\ cache = [i \in ItemIds |-> 0]
    /\ runs = 0
    /\ unsent = {}
    /\ Started

\* A batch script on a fresh checkout (nothing under tmp/), its credentials
\* exported or not, started up to MaxRuns times
InitBatch ==
    /\ IdleJpeg
    /\ IdleFn
    /\ script \in BatchScripts
    /\ argv \in ArgsOf(script)
    /\ environ \in Envs(Reads(script), EnvValue)
    /\ envfile = NoEnv
    /\ cards \in CardLists
    /\ cache = [i \in ItemIds |-> 0]
    /\ runs = 1
    /\ unsent = {}
    /\ Started

\* Any script, once, over cards that all have work to do, every credential it
\* reads being exported, written in .env.local, both or neither
InitCred ==
    /\ IdleJpeg
    /\ IdleFn
    /\ script \in AllScripts
    /\ argv \in ArgsOf(script)
    /\ environ \in Envs(Reads(script), EnvValue)
    /\ envfile \in Envs(Reads(script), FileValue)
    /\ cards = [k \in ItemIds |-> [id |-> k, front |-> TRUE]]
    /\ cache = [i \in ItemIds |-> 0]
    /\ runs = MaxRuns
    /\ unsent = {}
    /\ Started

NextBatch ==
    \/ StartQuiz
    \/ StartDot
    \/ StartMap
    \/ FetchCards
    \/ QuizItem
    \/ QuizGenerate
    \/ QuizUpload
    \/ DotItem
    \/ DotGenerate
    \/ DotStore
    \/ MapItem
    \/ MapGenerate
    \/ MapStore
    \/ Finish
    \/ NewRun

NextCred ==
    \/ StartQuiz
    \/ StartDot
    \/ StartMap
    \/ FetchCards
    \/ QuizItem
    \/ QuizGenerate
    \/ QuizUpload
    \/ DotItem
    \/ DotGenerate
    \/ DotStore
    \/ MapItem
    \/ MapGenerate
    \/ MapStore
    \/ Finish
    \/ SimpleLookup
    \/ SimpleCall
    \/ AskInterrupt

\* One call of compress_to_jpeg / generate_image_bytes, outside any script
InitCall ==
    /\ InitJpeg
    /\ IdleScripts
    /\ IdleFn

SpecJpeg == InitCall /\ [][NextJpeg]_vars

\* The interpreter keeps executing the call: no step waits on anything.
FairSpecJpeg == SpecJpeg /\ WF_vars(NextJpeg)

SpecBatch == InitBatch /\ [][NextBatch]_vars

----------------------------------------------------------------------------
(* gen_quiz_images with the call of generate_image_bytes carried out *)

\* The call of generate_image_bytes is over: its locals are gone
CallOver ==
    /\ pc' = "idle"
    /\ caller' = "none"
    /\ raw' = [decodable |-> FALSE, w |-> 0, h |-> 0, c |-> 1, dip |-> FALSE]
    /\ target_kb' = DefaultTargetKb
    /\ max_dim' = DefaultMaxDim
    /\ resp_mime' = ""
    /\ mime_type' = ""
    /\ img' = NoSize
    /\ scale' = 0
    /\ work' = NoSize
    /\ lo' = 0
    /\ hi' = 0
    /\ local_best' = NoBytes
    /\ local_size' = -1
    /\ best_bytes' = NoBytes
    /\ best_size_kb' = -1
    /\ warned' = FALSE
    /\ ret' = NoRet
    /\ gen_ret' = NoRet
    /\ via' = ""
    /\ outer' = 0
    /\ first_work' = NoSize
    /\ probes' = <<>>
    /\ encodes' = 0

\* gen_quiz_images.main, line 132, and generate_image_bytes, lines 186-207:
\* as QuizGenerate up to the response; the response is then taken through
\* compress_to_jpeg with the default target_kb and max_dim
QuizCall ==
    /\ script = "gen_quiz_images"
    /\ spc = "generate"
    /\ pc = "idle"
    /\ LET key == load_google_api_key(environ, envfile)
           g == [cur EXCEPT !.gen = TRUE]
       IN  \/ /\ log' = Append(log, [g EXCEPT !.outcome = "runtime_error"])
              /\ IF QuizCatches("runtime_error")
                 THEN /\ stderr' = stderr \cup {"generation_failed"}
                      /\ pos' = pos + 1
                      /\ spc' = "item"
                      /\ UNCHANGED exit_status
                 ELSE /\ spc' = "crashed"
                      /\ exit_status' = 1
                      /\ UNCHANGED <<pos, stderr>>
              /\ lookups' = (IF key # 0
                             THEN Append(lookups, [cred |-> "GOOGLE", found |-> TRUE])
                             ELSE lookups)
              /\ cur' = NoCur
              /\ UNCHANGED jpegVars
           \/ /\ key = 0
              /\ lookups' = Append(lookups, [cred |-> "GOOGLE", found |-> FALSE])
              /\ log' = Append(log, [g EXCEPT !.outcome = "exit"])
              /\ stderr' = stderr \cup {"google_key_required"}
              /\ spc' = "exited"
              /\ exit_status' = 1
              /\ cur' = NoCur
              /\ UNCHANGED pos
              /\ UNCHANGED jpegVars
           \/ /\ key # 0
              /\ lookups' = Append(lookups, [cred |-> "GOOGLE", found |-> TRUE])
              /\ cur' = g
              /\ spc' = "compress"
              /\ pc' = "extract"
              /\ caller' = "generate_image_bytes"
              /\ raw' \in Inputs
              /\ resp_mime' \in RespMimes
              /\ UNCHANGED <<target_kb, max_dim, mime_type, img, scale, work, lo,
                             hi, local_best, local_size, best_bytes, best_size_kb,
                             warned, ret, gen_ret, via, outer, first_work, probes,
                             encodes>>
              /\ UNCHANGED <<log, pos, stderr, exit_status>>
    /\ UNCHANGED <<script, argv, environ, envfile, env, oa_client, cards, cache,
                   runs, unsent>>
    /\ UNCHANGED fnVars

\* gen_quiz_images.main, lines 132-134: the bytes returned are written to
\* the cache file
QuizReturn ==
    /\ script = "gen_quiz_images"
    /\ spc = "compress"
    /\ pc = "done"
    /\ \E n \in Contents :
          /\ cache' = write_bytes(cache, cur.id, n)
          /\ cur' = [cur EXCEPT !.outcome = "generated", !.content = n,
                                !.wrote = TRUE]
    /\ spc' = "store"
    /\ CallOver
    /\ UNCHANGED <<script, argv, environ, envfile, env, oa_client, cards, pos,
                   log, stderr, exit_status, lookups, runs, unsent>>
    /\ UNCHANGED fnVars

\* gen_quiz_images.main, lines 135-137: the exception compress_to_jpeg let
\* out meets "except RuntimeError"
QuizRaise ==
    /\ script = "gen_quiz_images"
    /\ spc = "compress"
    /\ pc = "raised"
    /\ log' = Append(log, [cur EXCEPT !.outcome = "decode_error"])
    /\ cur' = NoCur
    /\ IF QuizCatches("decode_error")
       THEN /\ stderr' = stderr \cup {"generation_failed"}
            /\ pos' = pos + 1
            /\ spc' = "item"
            /\ CallOver
            /\ UNCHANGED exit_status
       ELSE /\ spc' = "crashed"
            /\ exit_status' = 1
            /\ UNCHANGED <<pos, stderr>>
            /\ UNCHANGED jpegVars
    /\ UNCHANGED <<script, argv, environ, envfile, env, oa_client, cards, cache,
                   lookups, runs, unsent>>
    /\ UNCHANGED fnVars

\* gen_quiz_images --doit with its Supabase settings exported, once
InitQuizCall ==
    /\ IdleJpeg
    /\ IdleFn
    /\ script = "gen_quiz_images"
    /\ argv \in ArgsOf(script)
    /\ environ \in { m \in Envs(Reads(script), EnvValue) : ~SupabaseMissing(m) }
    /\ envfile = NoEnv
    /\ cards \in CardLists
    /\ cache = [i \in ItemIds |-> 0]
    /\ runs = MaxRuns
    /\ unsent = {}
    /\ Started

NextQuizCall ==
    \/ StartQuiz
    \/ FetchCards
    \/ QuizItem
    \/ QuizCall
    \/ Extract
    \/ Decode
    \/ DecodeFails
    \/ Resize
    \/ Probe
    \/ Found
    \/ Shrink
    \/ Fallback
    \/ Return
    \/ GenReturn
    \/ QuizReturn
    \/ QuizRaise
    \/ QuizUpload
    \/ Finish

SpecQuizCall == InitQuizCall /\ [][NextQuizCall]_vars

----------------------------------------------------------------------------
(* generate_image_bytes, lines 209-242: the image data of a response *)

MaxCands == 2
MaxParts == 2

\* A response part: its inline_data ("none", or with "empty" / "data" bytes)
\* and its data field ("none", bytes that are empty or not, a string that
\* decodes to no bytes, to bytes, or does not decode)
PartSet ==
    { [inline |-> "none", data |-> d] :
         d \in {"none", "bytes_empty", "bytes", "str_empty", "str_data", "str_bad"} }
    \cup { [inline |-> "data", data |-> "none"], [inline |-> "empty", data |-> "none"] }

PartLists == UNION { [1 .. n -> PartSet] : n \in 0 .. MaxParts }

\* resp.candidates (each with its content.parts) and resp.parts
Responses ==
    { [candidates |-> cs, has_parts |-> hp, parts |-> tp] :
         cs \in UNION { [1 .. n -> PartLists] : n \in 0 .. MaxCands },
         hp \in BOOLEAN,
         tp \in {<<>>, <<[inline |-> "data", data |-> "none"]>>} }

\* lines 212-217: parts.extend(content.parts) over the candidates
RECURSIVE CandParts(_)
CandParts(cs) == IF cs = <<>> THEN <<>> ELSE Head(cs) \o CandParts(Tail(cs))

\* lines 218-219: resp.parts stands in when the candidates gave no part
PartsOf(resp) ==
    IF CandParts(resp.candidates) = <<>> /\ resp.has_parts
    THEN resp.parts ELSE CandParts(resp.candidates)

\* lines 221-238: the loop over the parts; at = 0 when it ran to the end,
\* else the part the loop broke at, the field taken and whether the bytes
\* taken are empty
RECURSIVE ScanParts(_, _)
ScanParts(ps, i) ==
    IF i > Len(ps) THEN [at |-> 0, field |-> "", empty |-> TRUE]
    ELSE IF ps[i].inline = "data"
    THEN [at |-> i, field |-> "inline_data", empty |-> FALSE]
    ELSE IF ps[i].data \in {"bytes", "bytes_empty"}
    THEN [at |-> i, field |-> "data", empty |-> (ps[i].data = "bytes_empty")]
    ELSE IF ps[i].data \in {"str_data", "str_empty"}
    THEN [at |-> i, field |-> "data", empty |-> (ps[i].data = "str_empty")]
    ELSE ScanParts(ps, i + 1)

\* lines 209-242: if not raw_bytes: raise RuntimeError
ExtractImage(resp) ==
    LET r == ScanParts(PartsOf(resp), 1)
    IN  [called |-> TRUE, raised |-> r.empty, at |-> r.at, field |-> r.field]

InitExtractImage ==
    /\ IdleJpeg
    /\ IdleScripts
    /\ fn = "generate_image_bytes.extract"
    /\ arg \in Responses
    /\ out = NoOut

CallExtractImage ==
    /\ fn = "generate_image_bytes.extract"
    /\ ~out.called
    /\ out' = ExtractImage(arg)
    /\ UNCHANGED <<fn, arg>>
    /\ UNCHANGED <<jpegVars, scriptVars>>

NextExtractImage ==
    \/ CallExtractImage

SpecExtractImage == InitExtractImage /\ [][NextExtractImage]_vars

----------------------------------------------------------------------------
(* The text of a Responses-API reply: ask_vs.ask lines 47-60,                *)
(* summary_vs.summarize lines 74-87, fetch_graph lines 116-130,              *)
(* make_map_refs lines 174-188                                               *)

MaxOutputItems == 2

\* Texts are numbers: 0 is None or "", the direct output_text is DirectText,
\* and the text of part j of item i is PlaceBase * i + j
DirectText == 1
PlaceBase == 10

\* An output item: without a content attribute, with content that cannot be
\* iterated ("broken"), or with a list of parts [type, filled]
ItemShapes ==
    { [kind |-> "no_content", content |-> <<>>], [kind |-> "broken", content |-> <<>>] }
    \cup { [kind |-> "content", content |-> ps] :
              ps \in UNION { [1 .. n -> { [type |-> "output_text", filled |-> TRUE],
                                          [type |-> "output_text", filled |-> FALSE],
                                          [type |-> "refusal", filled |-> TRUE] }] :
                             n \in 0 .. MaxParts } }

WithTexts(shape) ==
    [i \in 1 .. Len(shape) |->
        [kind |-> shape[i].kind,
         content |-> [j \in 1 .. Len(shape[i].content) |->
                         [type |-> shape[i].content[j].type,
                          text |-> IF shape[i].content[j].filled
                                   THEN PlaceBase * i + j ELSE 0]]]]

TextResponses ==
    { [output_text |-> t, output |-> WithTexts(sh)] :
         t \in {0, DirectText},
         sh \in UNION { [1 .. n -> ItemShapes] : n \in 0 .. MaxOutputItems } }

\* if getattr(part, "type", "") == "output_text"
IsAnyType(p) == TRUE
IsOutputText(p) == p.type = "output_text"

\* for part in item.content: ... text = part.text; if text: break
RECURSIVE WalkParts(_, _, _)
WalkParts(ps, j, text) ==
    IF j > Len(ps) THEN text
    ELSE IF IsOutputText(ps[j])
    THEN (IF ps[j].text # 0 THEN ps[j].text ELSE WalkParts(ps, j + 1, ps[j].text))
    ELSE WalkParts(ps, j + 1, text)

\* for item in resp.output: ...; if text: break -- inside try/except
\* Exception, where an item that cannot be walked sets text = None
RECURSIVE WalkItems(_, _, _)
WalkItems(items, i, text) ==
    IF i > Len(items) THEN text
    ELSE IF items[i].kind = "broken" THEN 0
    ELSE IF items[i].kind = "no_content" THEN WalkItems(items, i + 1, text)
    ELSE LET t == WalkParts(items[i].content, 1, text)
         IN  IF t # 0 THEN t ELSE WalkItems(items, i + 1, t)

\* text = getattr(resp, "output_text", None); if not text and resp.output: ...
ResponseText(resp) ==
    IF resp.output_text = 0 /\ resp.output # <<>>
    THEN WalkItems(resp.output, 1, resp.output_text)
    ELSE resp.output_text

InitResponseText ==
    /\ IdleJpeg
    /\ IdleScripts
    /\ fn = "response_text"
    /\ arg \in TextResponses
    /\ out = NoOut

CallResponseText ==
    /\ fn = "response_text"
    /\ ~out.called
    /\ out' = [called |-> TRUE, raised |-> FALSE, text |-> ResponseText(arg)]
    /\ UNCHANGED <<fn, arg>>
    /\ UNCHANGED <<jpegVars, scriptVars>>

NextResponseText ==
    \/ CallResponseText

SpecResponseText == InitResponseText /\ [][NextResponseText]_vars

----------------------------------------------------------------------------
(* quizit_storage.fetch_cards_by_deck_title / fetch_cards_by_quiz_title *)

MaxListed == 3

\* An entry of deck.items["items"]: its card_id (0 = none) and its position
\* (a missing position counts as 0)
Positions == {0, 1, 2}
ListedItems == { [card_id |-> c, position |-> p] : c \in 0 .. MaxItems, p \in Positions }
ItemLists == UNION { [1 .. n -> ListedItems] : n \in 0 .. MaxListed }

\* The rows the cards table returns: some of the cards, in any order
RowLists ==
    UNION { { r \in [1 .. n -> ItemIds] : \A i, j \in 1 .. n : r[i] = r[j] => i = j } :
              n \in 0 .. MaxItems }

\* sorted(items, key=lambda it: it.get("position", 0)) -- a stable sort
KeepOrder(items) == items
RECURSIVE SortByPosition(_)
SortByPosition(items) ==
    IF items = <<>> THEN <<>>
    ELSE LET n == Len(items)
             front == SortByPosition(SubSeq(items, 1, n - 1))
             k == Cardinality({ i \in 1 .. n - 1 : front[i].position <= items[n].position })
         IN  SubSeq(front, 1, k) \o <<items[n]>> \o SubSeq(front, k + 1, n - 1)

\* card_ids = [...]; card_map = {c["id"]: c for c in cards};
\* return [card_map[cid] for cid in card_ids if cid in card_map]
HasCardId(it) == it.card_id # 0
fetch_cards(items, rows) ==
    LET ordered == SortByPosition(items)
        card_ids == [i \in 1 .. Len(SelectSeq(ordered, HasCardId)) |->
                        SelectSeq(ordered, HasCardId)[i].card_id]
        InMap(cid) == \E k \in 1 .. Len(rows) : rows[k] = cid
    IN  SelectSeq(card_ids, InMap)

InitFetchCards ==
    /\ IdleJpeg
    /\ IdleScripts
    /\ fn = "fetch_cards"
    /\ arg \in { [items |-> its, rows |-> r] : its \in ItemLists, r \in RowLists }
    /\ out = NoOut

CallFetchCards ==
    /\ fn = "fetch_cards"
    /\ ~out.called
    /\ out' = [called |-> TRUE, cards |-> fetch_cards(arg.items, arg.rows)]
    /\ UNCHANGED <<fn, arg>>
    /\ UNCHANGED <<jpegVars, scriptVars>>

NextFetchCards ==
    \/ CallFetchCards

SpecFetchCards == InitFetchCards /\ [][NextFetchCards]_vars

----------------------------------------------------------------------------
(* gen_quiz_images.extract_markdown_images and extract_front *)

MaxSegs == 3

\* A text is a sequence of characters; indices are Python's (from 0)
None == <<"<None>">>
Slice(text, a, b) == SubSeq(text, a + 1, b)

\* text.find(pat, i): the least index >= i where pat starts, or -1
FindLast(text, pat, i) ==
    LET at == { k \in i .. (Len(text) - Len(pat)) : Slice(text, k, k + Len(pat)) = pat }
    IN  IF at = {} THEN -1 ELSE CHOOSE k \in at : \A m \in at : k >= m
Find(text, pat, i) ==
    LET at == { k \in i .. (Len(text) - Len(pat)) : Slice(text, k, k + Len(pat)) = pat }
    IN  IF at = {} THEN -1 ELSE CHOOSE k \in at : \A m \in at : k <= m

\* s.strip()
RECURSIVE Strip(_)
Strip(s) ==
    IF s = <<>> THEN s
    ELSE IF Head(s) = " " THEN Strip(Tail(s))
    ELSE IF s[Len(s)] = " " THEN Strip(SubSeq(s, 1, Len(s) - 1))
    ELSE s

\* x or None
OrNoneKept(x) == x
OrNone(x) == IF x = <<>> THEN None ELSE x

\* One iteration of the while loop of extract_markdown_images, lines 30-50:
\* stop (a break), or the next index and the pair appended
ScanStep(text, i) ==
    LET bang == Find(text, <<"!", "[">>, i)
        close_bracket == Find(text, <<"]">>, bang + 2)
        alt_text == Strip(Slice(text, bang + 2, close_bracket))
        close_paren == Find(text, <<")">>, close_bracket + 2)
    IN  IF bang = -1 \/ close_bracket = -1
        THEN [stop |-> TRUE, i |-> i, pair |-> <<None, None>>]
        ELSE IF close_bracket + 1 < Len(text) /\ text[close_bracket + 2] = "("
        THEN (IF close_paren # -1
              THEN [stop |-> FALSE, i |-> close_paren + 1,
                    pair |-> <<OrNone(alt_text),
                               OrNone(Strip(Slice(text, close_bracket + 2, close_paren)))>>]
              ELSE [stop |-> FALSE, i |-> close_bracket + 2,
                    pair |-> <<OrNone(alt_text), None>>])
        ELSE [stop |-> FALSE, i |-> close_bracket + 1,
              pair |-> <<OrNone(alt_text), None>>]

\* while i < len(text): ...
RECURSIVE ScanFrom(_, _, _)
ScanFrom(text, i, results) ==
    IF ~(i < Len(text)) \/ ScanStep(text, i).stop THEN results
    ELSE ScanFrom(text, ScanStep(text, i).i, Append(results, ScanStep(text, i).pair))

extract_markdown_images(text) == ScanFrom(text, 0, <<>>)

\* The texts: pieces of plain text and image tags, written one after another
PlainPieces == { <<"a">>, <<"!">>, <<"(">>, <<")">>, <<"]", " ">> }
AltTexts == { <<>>, <<"a">>, <<" ", "a", " ">>, <<"(", "b">> }
UrlTexts == { <<>>, <<"u">>, <<" ", "u", " ">>, <<"]", "(">> }
Segments ==
    { [tag |-> FALSE, alt |-> <<>>, has_url |-> FALSE, url |-> <<>>, plain |-> p] :
         p \in PlainPieces }
    \cup { [tag |-> TRUE, alt |-> a, has_url |-> FALSE, url |-> <<>>, plain |-> <<>>] :
              a \in AltTexts }
    \cup { [tag |-> TRUE, alt |-> a, has_url |-> TRUE, url |-> u, plain |-> <<>>] :
              a \in AltTexts, u \in UrlTexts }

\* What a segment is written as
Written(sg) ==
    IF ~sg.tag THEN sg.plain
    ELSE <<"!", "[">> \o sg.alt \o <<"]">>
         \o (IF sg.has_url THEN <<"(">> \o sg.url \o <<")">> ELSE <<>>)

RECURSIVE Render(_)
Render(sgs) == IF sgs = <<>> THEN <<>> ELSE Written(Head(sgs)) \o Render(Tail(sgs))

\* A tag without a url is not directly followed by "("
SegmentLists ==
    { sgs \in UNION { [1 .. n -> Segments] : n \in 0 .. MaxSegs } :
         \A k \in 1 .. Len(sgs) - 1 :
            (sgs[k].tag /\ ~sgs[k].has_url) => Head(Written(sgs[k + 1])) # "(" }

InitMarkdown ==
    /\ IdleJpeg
    /\ IdleScripts
    /\ fn = "extract_markdown_images"
    /\ arg \in { [segs |-> sgs, text |-> Render(sgs)] : sgs \in SegmentLists }
    /\ out = NoOut

CallMarkdown ==
    /\ fn = "extract_markdown_images"
    /\ ~out.called
    /\ out' = [called |-> TRUE, images |-> extract_markdown_images(arg.text)]
    /\ UNCHANGED <<fn, arg>>
    /\ UNCHANGED <<jpegVars, scriptVars>>

NextMarkdown ==
    \/ CallMarkdown

SpecMarkdown == InitMarkdown /\ [][NextMarkdown]_vars

\* extract_front, lines 74-81: key = (info[0] or "", info[1] or ""); an info
\* is appended unless its key was seen
KeyOf(info) ==
    <<IF info[1] = None THEN <<>> ELSE info[1], IF info[2] = None THEN <<>> ELSE info[2]>>

NoDedupe(infos, seen) == infos
RECURSIVE Dedupe(_, _)
Dedupe(infos, seen) ==
    IF infos = <<>> THEN <<>>
    ELSE IF KeyOf(Head(infos)) \in seen THEN Dedupe(Tail(infos), seen)
    ELSE <<Head(infos)>> \o Dedupe(Tail(infos), seen \cup {KeyOf(Head(infos))})

\* extract_front, lines 59-72: the prompt text of a front, given what
\* json.loads makes of it ("fail": not JSON; "dict": an object, with its
\* prompt; "other": any other JSON value)
PromptText(front) ==
    IF front.raw = <<>> THEN <<>>
    ELSE IF front.json = "dict" THEN front.prompt
    ELSE front.raw

extract_front(front) ==
    IF front.raw = <<>> THEN [prompt_text |-> <<>>, infos |-> <<>>]
    ELSE [prompt_text |-> PromptText(front),
          infos |-> IF PromptText(front) # <<>>
                    THEN Dedupe(extract_markdown_images(PromptText(front)), {})
                    ELSE <<>>]

\* The fronts: a plain text, or a JSON object whose prompt is that text, the
\* text being a few tags over a small stock; a JSON object without a prompt;
\* a JSON number; nothing
FrontSegments ==
    { sg \in Segments :
         /\ sg.plain \in {<<>>, <<"a">>}
         /\ sg.alt \in {<<>>, <<"a">>}
         /\ sg.url \in {<<>>, <<"u">>} }

FrontTexts ==
    { Render(sgs) : sgs \in { l \in UNION { [1 .. n -> FrontSegments] : n \in 0 .. MaxSegs } :
                                 l \in SegmentLists } }

Fronts ==
    { [raw |-> t, json |-> "fail", prompt |-> <<>>] : t \in FrontTexts }
    \cup { [raw |-> <<"{", "}">>, json |-> "dict", prompt |-> t] : t \in FrontTexts }
    \cup { [raw |-> <<"1">>, json |-> "other", prompt |-> <<>>] }

InitFront ==
    /\ IdleJpeg
    /\ IdleScripts
    /\ fn = "extract_front"
    /\ arg \in Fronts
    /\ out = NoOut

CallFront ==
    /\ fn = "extract_front"
    /\ ~out.called
    /\ out' = [called |-> TRUE, prompt_text |-> extract_front(arg).prompt_text,
               infos |-> extract_front(arg).infos]
    /\ UNCHANGED <<fn, arg>>
    /\ UNCHANGED <<jpegVars, scriptVars>>

NextFront ==
    \/ CallFront

SpecFront == InitFront /\ [][NextFront]_vars

----------------------------------------------------------------------------
(* quizit_storage.upload_to_storage as a function of its arguments *)

\* filename.endswith(suffix)
Contains(name, suffix) == Find(name, suffix, 0) # -1
EndsWith(name, suffix) ==
    /\ Len(name) >= Len(suffix)
    /\ SubSeq(name, Len(name) - Len(suffix) + 1, Len(name)) = suffix

DotSuffix == <<".", "d", "o", "t">>

\* ct = content_type; if not ct: ct = "text/dot" if ... else ...
\* (NotGiven is the default None)
NotGiven == "<None>"
ContentTypeFor(filename, content_type) ==
    IF content_type \notin {NotGiven, ""} THEN content_type
    ELSE IF EndsWith(filename, DotSuffix) THEN "text/dot"
    ELSE "application/octet-stream"

\* path = f"{card_id}/{filename}"
ObjectPath(card_id, filename) == card_id \o <<"/">> \o filename

\* The call: the upload request sent (none when the client could not be
\* made) and the value returned; the storage client raises, or answers with
\* a dict holding a path, an object with a path, or something else
upload_to_storage(card_id, content, filename, content_type, reply) ==
    LET path == ObjectPath(card_id, filename)
        request == [path |-> path, content |-> content,
                    content_type |-> ContentTypeFor(filename, content_type),
                    upsert |-> "true"]
    IN  CASE reply = "client_raises" ->
                [called |-> TRUE, sent |-> <<>>, raised |-> FALSE, ret |-> None]
          [] reply = "upload_raises" ->
                [called |-> TRUE, sent |-> <<request>>, raised |-> FALSE, ret |-> None]
          [] reply \in {"dict_with_path", "object_with_path"} ->
                [called |-> TRUE, sent |-> <<request>>, raised |-> FALSE,
                 ret |-> <<"r", ":">> \o path]
          [] OTHER ->
                [called |-> TRUE, sent |-> <<request>>, raised |-> FALSE, ret |-> path]

CardIdTexts == { <<"7">>, <<"c", "-", "1">> }
FileNames ==
    { <<"c", "a", "r", "d">> \o DotSuffix,
      <<"b", "a", "c", "k">> \o DotSuffix,
      <<"b", "a", "c", "k", "0", ".", "m", "a", "p">>,
      <<"f", "r", "o", "n", "t", "1", ".", "j", "p", "g">>,
      <<"a">> \o DotSuffix \o <<".", "t", "x", "t">>,
      <<"d", "o", "t">>,
      DotSuffix }
ContentTypes == { NotGiven, "", "image/jpeg", "image/png" }
Replies ==
    { "client_raises", "upload_raises", "dict_with_path", "object_with_path", "other" }

InitUpload ==
    /\ IdleJpeg
    /\ IdleScripts
    /\ fn = "upload_to_storage"
    /\ arg \in { [card_id |-> c, content |-> b, filename |-> f, content_type |-> t,
                  reply |-> r] :
                    c \in CardIdTexts, b \in Contents, f \in FileNames,
                    t \in ContentTypes, r \in Replies }
    /\ out = NoOut

CallUpload ==
    /\ fn = "upload_to_storage"
    /\ ~out.called
    /\ out' = upload_to_storage(arg.card_id, arg.content, arg.filename,
                                arg.content_type, arg.reply)
    /\ UNCHANGED <<fn, arg>>
    /\ UNCHANGED <<jpegVars, scriptVars>>

NextUpload ==
    \/ CallUpload

SpecUpload == InitUpload /\ [][NextUpload]_vars

----------------------------------------------------------------------------
(* quizit_storage.load_env over the lines of .env.local *)

MaxLines == 3

\* A line of .env.local: whether it holds "=", whether it starts with "#"
\* once stripped, and the key and the value its split gives
SecondFileValue == 3
EnvLines ==
    { [eq |-> q, hash |-> h, key |-> k, value |-> v] :
         q \in BOOLEAN, h \in BOOLEAN,
         k \in {"OPENAI_API_KEY", "GOOGLE_API_KEY"},
         v \in {FileValue, SecondFileValue} }
EnvFiles == UNION { [1 .. n -> EnvLines] : n \in 0 .. MaxLines }

\* if "=" not in line or line.strip().startswith("#"): continue
Skipped(line) == ~line.eq \/ line.hash

\* The loop over the lines with env.setdefault: what the file sets, a key
\* taking the value of the first line that sets it
RECURSIVE FileMapping(_)
FileMapping(lines) ==
    IF lines = <<>> THEN NoEnv
    ELSE LET rest == FileMapping(Tail(lines))
         IN  IF Skipped(Head(lines)) THEN rest
             ELSE [rest EXCEPT ![Head(lines).key] = Head(lines).value]

InitLoadEnv ==
    /\ IdleJpeg
    /\ IdleScripts
    /\ fn = "load_env"
    /\ arg \in { [environ |-> e, lines |-> ls] :
                    e \in Envs({"OPENAI_API_KEY", "GOOGLE_API_KEY"}, EnvValue),
                    ls \in EnvFiles }
    /\ out = NoOut

CallLoadEnv ==
    /\ fn = "load_env"
    /\ ~out.called
    /\ out' = [called |-> TRUE, env |-> load_env(arg.environ, FileMapping(arg.lines))]
    /\ UNCHANGED <<fn, arg>>
    /\ UNCHANGED <<jpegVars, scriptVars>>

NextLoadEnv ==
    \/ CallLoadEnv

SpecLoadEnv == InitLoadEnv /\ [][NextLoadEnv]_vars

\* A started script runs on until it ends; nobody is obliged to start it again.
FairSpecBatch == SpecBatch /\ WF_vars(NextBatch /\ runs' = runs)

SpecCred == InitCred /\ [][NextCred]_vars

----------------------------------------------------------------------------
(* Vocabulary of the claims about the script runs *)

\* Live generation is enabled for this run
LiveGeneration ==
    CASE script = "gen_quiz_images" -> argv.doit
      [] script = "gen_deck_dot_images" -> argv.store_id /\ oa_client
      [] script = "gen_deck_map_refs" -> oa_client
      [] OTHER -> FALSE

\* The work items this run is through with
Handled == { log[i] : i \in { j \in 1 .. Len(log) : log[j].item } }

\* The credential is in neither os.environ nor .env.local, by its name
AbsentByName(cred) ==
    CASE cred = "OPENAI" ->
            environ["OPENAI_API_KEY"] = 0 /\ envfile["OPENAI_API_KEY"] = 0
      [] cred = "GOOGLE" ->
            environ["GOOGLE_API_KEY"] = 0 /\ envfile["GOOGLE_API_KEY"] = 0
      [] OTHER ->
            \/ environ["VITE_SUPABASE_URL"] = 0 /\ envfile["VITE_SUPABASE_URL"] = 0
            \/ environ["VITE_SUPABASE_ANON_KEY"] = 0 /\ envfile["VITE_SUPABASE_ANON_KEY"] = 0

\* The same, the Google key counting under its second spelling where the
\* script reads it
Absent(cred) ==
    /\ AbsentByName(cred)
    /\ (cred = "GOOGLE" /\ script \in {"gen_quiz_images", "gen_image"})
          => environ["GOOLE_API_KEY"] = 0 /\ envfile["GOOLE_API_KEY"] = 0

KeyMessages ==
    {"openai_key_required", "google_key_required", "supabase_settings_required",
     "api_key_required"}

\* The process has ended on a message about a missing credential
EndedOnMissingKey ==
    /\ spc = "exited"
    /\ exit_status > 0
    /\ stderr \cap KeyMessages # {}

----------------------------------------------------------------------------
\* C9: in the three batch scripts the generation function is called for a
\* work item if and only if its cache file is absent and live generation is
\* enabled; a cached item is served from the file with no generation call,
\* and an uncached item with generation disabled is skipped with no
\* generation call and no upload.
C9_GenerateIffAbsentAndEnabled ==
    /\ spc = "generate" => (~cur.cached /\ LiveGeneration)
    /\ \A e \in Handled :
          /\ e.gen <=> (~e.cached /\ LiveGeneration)
          /\ e.cached =>
                /\ e.outcome = "cache"
                /\ e.content = cache[e.id]
                /\ \A i \in 1 .. Len(e.uploads) : e.uploads[i].content = cache[e.id]
                /\ script # "gen_deck_map_refs" => Len(e.uploads) = 1
          /\ (~e.cached /\ ~LiveGeneration) =>
                /\ e.outcome = "skip"
                /\ e.uploads = <<>>
                /\ cache[e.id] = 0

\* A second run without live generation: one item served from the file a
\* first run left, another skipped
C9_Witness ==
    /\ runs = 2
    /\ ~LiveGeneration
    /\ \E e \in Handled : e.cached /\ ~e.gen /\ e.uploads # <<>>
    /\ \E e \in Handled : ~e.cached /\ e.outcome = "skip"

\* C10 (as stated): whenever a script looks up a credential that is in
\* neither the environment nor .env.local under its name, the process has
\* terminated there with a user message and a non-zero status.
C10_MissingCredentialAlwaysExits ==
    \A i \in 1 .. Len(lookups) :
        AbsentByName(lookups[i].cred) => (i = Len(lookups) /\ EndedOnMissingKey)

\* C10 (amended): a lookup fails exactly when the credential is absent (the
\* Google key under both spellings for gen_image and gen_quiz_images); a
\* failed lookup ends the process there with a message and status 1, except
\* in gen_deck_map_refs, where a missing OPENAI_API_KEY gives a warning and
\* a run that makes no generation call.
C10_MissingCredentialExitsOrDisables ==
    \A i \in 1 .. Len(lookups) :
        /\ lookups[i].found <=> ~Absent(lookups[i].cred)
        /\ Absent(lookups[i].cred) =>
              IF script = "gen_deck_map_refs" /\ lookups[i].cred = "OPENAI"
              THEN /\ "openai_key_missing_generation_skipped" \in stderr
                   /\ ~oa_client
                   /\ spc # "generate"
                   /\ \A e \in Handled : ~e.gen
              ELSE /\ i = Len(lookups)
                   /\ EndedOnMissingKey
                   /\ exit_status = 1
                   /\ cur = NoCur
                   /\ \A j \in 1 .. Len(log) : log[j].outcome = "exit" => j = Len(log)

\* gen_quiz_images --doit without a Google key: the first image ends the
\* process, the second card is never reached
C10_Witness ==
    /\ script = "gen_quiz_images"
    /\ Len(lookups) = 2
    /\ lookups[2].cred = "GOOGLE"
    /\ Absent("GOOGLE")
    /\ spc = "exited"
    /\ exit_status = 1
    /\ "google_key_required" \in stderr
    /\ Len(log) = 1
    /\ Len(cards) = 2

\* An item whose generation call or whose upload failed
GenerationFailed(e) == e.outcome \in {"runtime_error", "api_error"}
UploadFailed(e) == \E i \in 1 .. Len(e.uploads) : ~e.uploads[i].ok
HasFailure == \E i \in 1 .. Len(log) : GenerationFailed(log[i]) \/ UploadFailed(log[i])

\* C11: in the batch scripts a failed generation call or a failed upload
\* costs its own item only: the failed generation leaves nothing cached or
\* uploaded for the item, the process does not end on it, a run that ends
\* normally has been through every card, and after a failure the run still
\* reaches its end (unless something other than such a failure stops it).
C11_FailureCostsOneItemOnly ==
    /\ [](\A i \in 1 .. Len(log) :
            /\ GenerationFailed(log[i]) =>
                  /\ log[i].uploads = <<>>
                  /\ log[i].content = 0
                  /\ ~log[i].wrote
            /\ (GenerationFailed(log[i]) \/ UploadFailed(log[i])) /\ i = Len(log)
                  => spc \notin {"exited", "crashed"})
    /\ [](spc = "done" => (Len(log) = Len(cards) /\ exit_status = 0))
    /\ HasFailure ~> (spc \in {"done", "exited", "crashed"})

\* A finished run whose first item failed and whose second item was uploaded
C11_Witness ==
    /\ spc = "done"
    /\ Len(log) = 2
    /\ GenerationFailed(log[1]) \/ UploadFailed(log[1])
    /\ log[2].uploads # <<>>
    /\ log[2].uploads[1].ok

\* C12: bytes that do not decode make compress_to_jpeg raise: the call is
\* over there, with no encode attempt, no retry and no value returned by
\* compress_to_jpeg or generate_image_bytes; gen_quiz_images does not catch
\* it either, so the process ends on that item with no cache file written
\* and no upload made for it.
C12_DecodeFailurePropagates ==
    /\ [](pc \in {"resize", "search", "ret", "gen_return", "done"} => raw.decodable)
    /\ [](pc = "raised" =>
            /\ ~raw.decodable
            /\ encodes = 0
            /\ probes = <<>>
            /\ outer = 0
            /\ ret = NoRet
            /\ gen_ret = NoRet)
    /\ [][pc = "raised" => pc' = "raised"]_vars
    /\ [](\A i \in 1 .. Len(log) :
            log[i].outcome = "decode_error" =>
                /\ i = Len(log)
                /\ spc = "crashed"
                /\ exit_status # 0
                /\ pc = "raised"
                /\ cache[log[i].id] = 0
                /\ ~log[i].wrote
                /\ log[i].uploads = <<>>)

\* The second image of a run came back undecodable: the process has ended
\* on it, the first image having been cached and uploaded
C12_Witness ==
    /\ spc = "crashed"
    /\ pc = "raised"
    /\ Len(log) = 2
    /\ log[1].outcome = "generated"
    /\ log[2].outcome = "decode_error"
    /\ cache[log[2].id] = 0

----------------------------------------------------------------------------
(* Vocabulary of the claims about the helper functions *)

\* A part that carries usable, non-empty image data
Usable(p) == p.inline = "data" \/ p.data \in {"bytes", "str_data"}
UsableAt(ps) == { i \in 1 .. Len(ps) : Usable(ps[i]) }
FirstOf(S) == CHOOSE i \in S : \A j \in S : i <= j

\* C13: generate_image_bytes takes the image from the first part, in
\* order, that carries usable non-empty image data, and raises "cannot
\* extract image data" exactly when no part carries any.
C13_FirstUsablePartTaken ==
    (fn = "generate_image_bytes.extract" /\ out.called) =>
       LET ps == PartsOf(arg)
       IN  IF UsableAt(ps) = {}
           THEN out.raised
           ELSE ~out.raised /\ out.at = FirstOf(UsableAt(ps))

\* The places <<i, j>> of the filled output_text parts of a reply, and the
\* items that cannot be walked
FilledPlaces(resp) ==
    { p \in (1 .. Len(resp.output)) \X (1 .. MaxParts + 1) :
         /\ resp.output[p[1]].kind = "content"
         /\ p[2] <= Len(resp.output[p[1]].content)
         /\ resp.output[p[1]].content[p[2]].type = "output_text"
         /\ resp.output[p[1]].content[p[2]].text # 0 }
Before(p, q) == p[1] < q[1] \/ (p[1] = q[1] /\ p[2] <= q[2])
FirstPlace(S) == CHOOSE p \in S : \A q \in S : Before(p, q)
BrokenItems(resp) == { i \in 1 .. Len(resp.output) : resp.output[i].kind = "broken" }

\* C14: the text extraction gives the direct output_text when that is
\* non-empty; otherwise the first non-empty text of an output_text part, items
\* and parts in order; otherwise no text; an error met while walking the
\* items gives no text and never propagates.
C14_ResponseTextExtraction ==
    (fn = "response_text" /\ out.called) =>
       /\ ~out.raised
       /\ IF arg.output_text # 0 THEN out.text = arg.output_text
          ELSE IF FilledPlaces(arg) # {}
                  /\ \A i \in BrokenItems(arg) : i > FirstPlace(FilledPlaces(arg))[1]
          THEN LET p == FirstPlace(FilledPlaces(arg))
               IN  out.text = arg.output[p[1]].content[p[2]].text
          ELSE out.text = 0

\* The text came from the second part of the second item, past an empty
\* output_text part and a part of another type
C14_Witness ==
    /\ fn = "response_text"
    /\ out.called
    /\ arg.output_text = 0
    /\ Len(arg.output) = 2
    /\ arg.output[1].kind = "content"
    /\ Len(arg.output[1].content) = 2
    /\ arg.output[1].content[1].type = "refusal"
    /\ arg.output[1].content[2].text = 0
    /\ out.text = PlaceBase * 2 + 2

\* The entries of the items list whose card comes back: those with a
\* card_id that has a row
Kept ==
    { i \in 1 .. Len(arg.items) :
         /\ arg.items[i].card_id # 0
         /\ \E k \in 1 .. Len(arg.rows) : arg.rows[k] = arg.items[i].card_id }

\* The place of a kept entry when the kept entries stay in list order, and
\* when they are ordered by position (entries of one position in list order)
ListRank(i) == Cardinality({ j \in Kept : j <= i })
PositionRank(i) ==
    Cardinality({ j \in Kept :
                    \/ arg.items[j].position < arg.items[i].position
                    \/ arg.items[j].position = arg.items[i].position /\ j <= i })

IsTag(sg) == sg.tag
Tags == SelectSeq(arg.segs, IsTag)

\* A text without its surrounding blanks, declared: the part from its first
\* to its last character that is no blank
Trimmed(t) ==
    LET ink == { k \in 1 .. Len(t) : t[k] # " " }
    IN  IF ink = {} THEN <<>>
        ELSE SubSeq(t, CHOOSE k \in ink : \A m \in ink : k <= m,
                       CHOOSE k \in ink : \A m \in ink : k >= m)

\* C16: extract_markdown_images returns one pair per image tag, in order of
\* appearance: ![alt](url) gives (alt, url), ![alt] not followed by "(" gives
\* (alt, None); alt and url are stripped, and an empty one is None.
C16_OnePairPerTag ==
    (fn = "extract_markdown_images" /\ out.called) =>
       /\ Len(out.images) = Len(Tags)
       /\ \A k \in 1 .. Len(Tags) :
             /\ out.images[k][1] =
                   (IF Trimmed(Tags[k].alt) = <<>> THEN None ELSE Trimmed(Tags[k].alt))
             /\ out.images[k][2] =
                   (IF ~Tags[k].has_url \/ Trimmed(Tags[k].url) = <<>>
                    THEN None ELSE Trimmed(Tags[k].url))

\* Two tags around plain text: one with a blank-padded alt and url, one with
\* an empty alt and no url
C16_Witness ==
    /\ fn = "extract_markdown_images"
    /\ out.called
    /\ Len(arg.segs) = 3
    /\ arg.segs[1] = [tag |-> TRUE, alt |-> <<" ", "a", " ">>, has_url |-> TRUE,
                      url |-> <<" ", "u", " ">>, plain |-> <<>>]
    /\ ~arg.segs[2].tag
    /\ arg.segs[3] = [tag |-> TRUE, alt |-> <<>>, has_url |-> FALSE, url |-> <<>>,
                      plain |-> <<>>]
    /\ out.images = << <<<<"a">>, <<"u">>>>, <<None, None>> >>

\* The pairs the scanner finds in the front's prompt text, and where a pair
\* is first found
ScannerPairs == extract_markdown_images(PromptText(arg))
FirstFound(p) == CHOOSE k \in 1 .. Len(ScannerPairs) :
                    ScannerPairs[k] = p /\ \A m \in 1 .. Len(ScannerPairs) : ScannerPairs[m] = p => k <= m

\* C17: the infos extract_front returns are the scanner's pairs without
\* repetition: no pair twice, every pair found exactly once, in the order
\* of first occurrence.
C17_DedupedInOrder ==
    (fn = "extract_front" /\ out.called) =>
       /\ \A i, j \in 1 .. Len(out.infos) : out.infos[i] = out.infos[j] => i = j
       /\ { out.infos[i] : i \in 1 .. Len(out.infos) }
             = { ScannerPairs[k] : k \in 1 .. Len(ScannerPairs) }
       /\ \A i, j \in 1 .. Len(out.infos) :
             i < j => FirstFound(out.infos[i]) < FirstFound(out.infos[j])

\* A pair found twice with another pair in between
C17_Witness ==
    /\ fn = "extract_front"
    /\ out.called
    /\ arg.json = "dict"
    /\ Len(ScannerPairs) = 3
    /\ ScannerPairs[1] = ScannerPairs[3]
    /\ ScannerPairs[1] # ScannerPairs[2]
    /\ out.infos = <<ScannerPairs[1], ScannerPairs[2]>>

\* C18: upload_to_storage uploads to the key "{card_id}/{filename}" with
\* upsert on and with the caller's content type when one is given, else
\* text/dot for a filename ending in .dot and application/octet-stream for
\* any other; when the upload raises, it returns None and raises nothing.
C18_UploadRequest ==
    (fn = "upload_to_storage" /\ out.called) =>
       /\ ~out.raised
       /\ Len(out.sent) <= 1
       /\ \A k \in 1 .. Len(out.sent) :
             /\ out.sent[k].path = arg.card_id \o <<"/">> \o arg.filename
             /\ out.sent[k].content = arg.content
             /\ out.sent[k].upsert = "true"
             /\ out.sent[k].content_type =
                   (IF arg.content_type \notin {NotGiven, ""} THEN arg.content_type
                    ELSE IF /\ Len(arg.filename) >= 4
                            /\ arg.filename[Len(arg.filename) - 3] = "."
                            /\ arg.filename[Len(arg.filename) - 2] = "d"
                            /\ arg.filename[Len(arg.filename) - 1] = "o"
                            /\ arg.filename[Len(arg.filename)] = "t"
                    THEN "text/dot"
                    ELSE "application/octet-stream")
       /\ arg.reply \in {"client_raises", "upload_raises"} => out.ret = None
       /\ arg.reply \notin {"client_raises", "upload_raises"} => out.ret # None

\* An upload of a.dot.txt without a content type that raised
C18_Witness ==
    /\ fn = "upload_to_storage"
    /\ out.called
    /\ arg.reply = "upload_raises"
    /\ arg.content_type = NotGiven
    /\ Contains(arg.filename, DotSuffix)
    /\ ~EndsWith(arg.filename, DotSuffix)
    /\ out.sent[1].content_type = "application/octet-stream"
    /\ out.ret = None

\* The lines of the file that set the name n: those with "=" that are no
\* comment
Setting(n) ==
    { k \in 1 .. Len(arg.lines) :
         arg.lines[k].eq /\ ~arg.lines[k].hash /\ arg.lines[k].key = n }

\* C19: load_env never overrides: a variable of the environment keeps its
\* value; a name the environment lacks takes the value of its first
\* occurrence in .env.local; lines without "=" or starting with "#" give
\* nothing.
C19_EnvironmentNotOverridden ==
    (fn = "load_env" /\ out.called) =>
       \A n \in CredNames :
          IF arg.environ[n] # 0 THEN out.env[n] = arg.environ[n]
          ELSE IF Setting(n) = {} THEN out.env[n] = 0
          ELSE out.env[n] =
                  arg.lines[CHOOSE k \in Setting(n) : \A m \in Setting(n) : k <= m].value

\* One name set in the environment and again in the file; another set only
\* in the file, twice, after a comment line that names it
C19_Witness ==
    /\ fn = "load_env"
    /\ out.called
    /\ arg.environ["OPENAI_API_KEY"] = EnvValue
    /\ arg.environ["GOOGLE_API_KEY"] = 0
    /\ Len(arg.lines) = 3
    /\ arg.lines[1] = [eq |-> TRUE, hash |-> TRUE, key |-> "GOOGLE_API_KEY",
                       value |-> SecondFileValue]
    /\ arg.lines[2] = [eq |-> TRUE, hash |-> FALSE, key |-> "GOOGLE_API_KEY",
                       value |-> FileValue]
    /\ arg.lines[3] = [eq |-> TRUE, hash |-> FALSE, key |-> "OPENAI_API_KEY",
                       value |-> FileValue]
    /\ out.env["OPENAI_API_KEY"] = EnvValue
    /\ out.env["GOOGLE_API_KEY"] = FileValue

\* C20: in ask_vs an API failure while answering a question ends that
\* question only: the failure is reported and the session goes on to the
\* next prompt; the process does not end on it.
C20_AskFailureKeepsSession ==
    (script = "ask_vs" /\ "api_failed" \in stderr) =>
       /\ spc \notin {"exited", "crashed"}
       /\ exit_status \in {-1, 0}

----------------------------------------------------------------------------
(* Resource bounds of compress_to_jpeg *)

NoRepeat(seq) == \A i, j \in 1 .. Len(seq) : i # j => seq[i] # seq[j]

(* C21: each binary search probes only integer qualities of [10, 95], never
   the same quality twice, and is left only when lo > hi, after at most 7
   encodes; at most 10 scales are searched, so that one call makes at most
   71 encodes (10 x 7 probes and the fallback encode). *)
C21_SearchAndEncodesBounded ==
    /\ [](/\ \A i \in 1 .. Len(probes) : probes[i] \in Qualities
          /\ NoRepeat(probes)
          /\ Len(probes) <= 7
          /\ outer <= 10
          /\ encodes <= 10 * 7 + 1
          /\ scale <= One)
    /\ [][(pc = "search" /\ pc' # "search") => lo > hi]_jpegVars

\* A call that searched ten scales with seven probes each and then fell back
C21_Witness ==
    /\ pc = "done"
    /\ via = "fallback"
    /\ outer = 10
    /\ Len(probes) = 7
    /\ encodes = 71

\* The probes of the current search whose encoding is within the budget
FittingProbes == { i \in 1 .. Len(probes) : Fits(work, probes[i]) }

(* C22: within one binary search every probe made after a probe that fits
   the budget is at a strictly lower quality; the candidate kept is the
   fitting probe of the lowest quality, and there is no candidate exactly
   when no probe fit. *)
C22_LowestFittingProbeKept ==
    /\ \A i \in FittingProbes : \A j \in (i + 1) .. Len(probes) : probes[j] < probes[i]
    /\ (local_best = NoBytes) <=> (FittingProbes = {})
    /\ FittingProbes # {} =>
          /\ local_best.q \in { probes[i] : i \in FittingProbes }
          /\ \A i \in FittingProbes : local_best.q <= probes[i]
          /\ local_best = jpeg_bytes(raw, work, local_best.q)
          /\ local_size = local_best.len

\* A finished search with several probes within the budget, the candidate
\* kept being a later and lower one than the first probe
C22_Witness ==
    /\ pc = "ret"
    /\ via = "found"
    /\ Cardinality(FittingProbes) >= 2
    /\ local_best.q < probes[1]

----------------------------------------------------------------------------
(* The cache files of the batch scripts *)

\* The item whose generation result a step writes to the cache:
\* gen_quiz_images writes inside the generation step, the deck scripts in
\* the step after it
Writer == IF script = "gen_quiz_images" THEN cur' ELSE cur

(* C23: a run of a batch script never modifies or deletes a cache file that
   exists; a cache file is written only when it is absent, and only with the
   non-empty result of the successful generation call made for its item; so
   what an earlier run cached is what every later run finds. *)
C23_CacheWrittenOnceByGeneration ==
    /\ [][\A i \in ItemIds :
            /\ cache[i] # 0 => cache'[i] = cache[i]
            /\ cache'[i] # cache[i] =>
                  /\ cache[i] = 0
                  /\ cache'[i] \in Contents
                  /\ Writer.id = i
                  /\ Writer.gen
                  /\ ~Writer.cached
                  /\ Writer.outcome = "generated"
                  /\ Writer.content = cache'[i]]_vars
    /\ [](\A e \in Handled :
            /\ e.wrote => (e.gen /\ e.outcome = "generated" /\ cache[e.id] = e.content)
            /\ e.cached => ~e.wrote)

\* A second run with live generation enabled that reached an item cached by
\* the first run: served from the file, nothing generated, nothing written
C23_Witness ==
    /\ runs = 2
    /\ LiveGeneration
    /\ \E e \in Handled :
          /\ e.cached
          /\ ~e.gen
          /\ ~e.wrote
          /\ e.uploads # <<>>
          /\ cache[e.id] = e.content

(* C24: in gen_quiz_images a freshly generated image is in its cache file
   before the upload is attempted, and the bytes uploaded are the bytes
   cached; so when that upload fails, a later run that reaches the image,
   with or without --doit, finds the file and uploads the same bytes under
   the same key without calling the generation API. *)
C24_FailedUploadRetriedFromCache ==
    script = "gen_quiz_images" =>
       /\ (spc = "store" /\ cur.gen) =>
             (cur.wrote /\ cur.content # 0 /\ cache[cur.id] = cur.content)
       /\ \A e \in Handled : \A i \in 1 .. Len(e.uploads) :
             /\ e.uploads[i].content = cache[e.id]
             /\ e.uploads[i].card = e.id
       /\ \A u \in unsent :
             /\ cache[u.up.card] = u.up.content
             /\ \A e \in Handled :
                   (e.id = u.up.card /\ runs > u.run) =>
                      /\ e.cached
                      /\ ~e.gen
                      /\ Len(e.uploads) = 1
                      /\ e.uploads[1].card = u.up.card
                      /\ e.uploads[1].file = u.up.file
                      /\ e.uploads[1].content = u.up.content
                      /\ e.uploads[1].ctype = u.up.ctype

\* The upload of a generated image failed in the first run; the second run,
\* started without --doit, has uploaded it from the cache file
C24_Witness ==
    /\ script = "gen_quiz_images"
    /\ runs = 2
    /\ ~argv.doit
    /\ \E u \in unsent : \E e \in Handled :
          /\ u.run = 1
          /\ e.id = u.up.card
          /\ e.uploads # <<>>
          /\ e.uploads[1].ok

\* The file a map-ref upload goes to: back{idx}.map, or back.map (idx = -1)
MapFile(idx) == [stem |-> "back", idx |-> idx, ext |-> "map"]

\* An object carrying the four keys of a map reference
FullRef(ref) ==
    ref.dict /\ \A k \in {"map_file", "name", "page", "position"} : k \in ref.keys

\* The items of a gen_deck_map_refs run whose map-ref text was obtained, from
\* the cache file or from the generation call
WithText == { e \in Handled : script = "gen_deck_map_refs" /\ e.content # 0 }

(* C25: in gen_deck_map_refs, when the map-ref text parses as a JSON list,
   element idx (counted from 0 in the original list) is uploaded if and only
   if it is an object with all of map_file, name, page and position, once,
   as back{idx}.map, invalid elements leaving gaps; a text that is no JSON
   list is uploaded whole, exactly once, as back.map; and the text is in the
   cache file whatever the validation finds. *)
C25_MapRefUploads ==
    \A e \in WithText :
       LET elems == Parsed(e.content).elems
           ups   == e.uploads
       IN  /\ cache[e.id] = e.content
           /\ \A i \in 1 .. Len(ups) : ups[i].card = e.id
           /\ \A i, j \in 1 .. Len(ups) : ups[i].file = ups[j].file => i = j
           /\ Parsed(e.content).list =>
                 /\ \A k \in 1 .. Len(elems) :
                       FullRef(elems[k]) <=>
                          \E i \in 1 .. Len(ups) : ups[i].file = MapFile(k - 1)
                 /\ \A i \in 1 .. Len(ups) :
                       \E k \in 1 .. Len(elems) : ups[i].file = MapFile(k - 1)
           /\ ~Parsed(e.content).list =>
                 /\ Len(ups) = 1
                 /\ ups[1].file = MapFile(-1)
                 /\ ups[1].content = e.content

\* A generated list whose first element lacks a key and whose second is
\* complete: cached, and uploaded as back1.map alone
C25_Witness ==
    \E e \in WithText :
       /\ e.gen
       /\ e.wrote
       /\ Parsed(e.content).list
       /\ ~FullRef(Parsed(e.content).elems[1])
       /\ Parsed(e.content).elems[1].dict
       /\ Len(e.uploads) = 1
       /\ e.uploads[1].file = MapFile(1)

----------------------------------------------------------------------------
(* openvs upload-file: cmd_upload_file, a Files upload followed by the
   attachment of the uploaded file to a vector store.  arg holds the command
   line and what is there before the call: the environment, whether --file
   names a file, the store id, and the ids of the files the account already
   has in Files.  out is the process: where it is, the API calls it has
   made, the account's Files and the store's attachments, its exit status. *)

MaxFiles == 2
FileIds == 1 .. (MaxFiles + 1)
StoreIds == {"vs_a", "vs_b"}

\* except APIError around vector_stores.files.create: the message and
\* sys.exit(1); the account's Files stay as the upload left them
OnAttachErrorDeletes(files, id) == files \ {id}
OnAttachError(files, id) == files

InitUploadFile ==
    /\ IdleJpeg
    /\ IdleScripts
    /\ fn = "cmd_upload_file"
    /\ arg \in { [environ |-> e, envfile |-> f, is_file |-> b, store_id |-> st,
                  files |-> fs] :
                    e \in Envs({"OPENAI_API_KEY"}, EnvValue),
                    f \in Envs({"OPENAI_API_KEY"}, FileValue),
                    b \in BOOLEAN, st \in StoreIds, fs \in SUBSET (1 .. MaxFiles) }
    /\ out = NoOut

\* client = get_client(): without a key the process ends here          (126)
UploadFileGetClient ==
    /\ fn = "cmd_upload_file"
    /\ ~out.called
    /\ LET key  == load_api_key(arg.environ, arg.envfile)
           proc == [called |-> TRUE, calls |-> <<>>, files |-> arg.files,
                    attached |-> {}, uploaded |-> 0, stderr |-> {}]
       IN  out' = IF key = 0
                  THEN proc @@ [at |-> "exited", status |-> 1]
                  ELSE proc @@ [at |-> "isfile", status |-> -1]
    /\ UNCHANGED <<fn, arg>>
    /\ UNCHANGED <<jpegVars, scriptVars>>

\* if not os.path.isfile(path): message, sys.exit(1)              (128-131)
UploadFileCheck ==
    /\ fn = "cmd_upload_file"
    /\ out.called
    /\ out.at = "isfile"
    /\ out' = IF arg.is_file
              THEN [out EXCEPT !.at = "upload"]
              ELSE [out EXCEPT !.at = "exited", !.status = 1,
                               !.stderr = @ \cup {"no_such_file"}]
    /\ UNCHANGED <<fn, arg>>
    /\ UNCHANGED <<jpegVars, scriptVars>>

\* client.files.create(file=open(path, "rb"), purpose="assistants"): the file
\* gets a fresh id, or the API refuses (APIError: message, sys.exit(1)), or
\* open() raises before any call and nothing catches it           (134-142)
UploadFileCreate ==
    /\ fn = "cmd_upload_file"
    /\ out.called
    /\ out.at = "upload"
    /\ \/ \E id \in FileIds \ out.files :
             out' = [out EXCEPT !.at = "attach",
                                !.calls = Append(@, [api |-> "files.create", ok |-> TRUE,
                                                     file |-> id, store |-> ""]),
                                !.files = @ \cup {id},
                                !.uploaded = id]
       \/ out' = [out EXCEPT !.at = "exited", !.status = 1,
                             !.calls = Append(@, [api |-> "files.create", ok |-> FALSE,
                                                  file |-> 0, store |-> ""]),
                             !.stderr = @ \cup {"upload_failed"}]
       \/ out' = [out EXCEPT !.at = "crashed", !.status = 1]
    /\ UNCHANGED <<fn, arg>>
    /\ UNCHANGED <<jpegVars, scriptVars>>

\* client.vector_stores.files.create(vector_store_id=args.store_id,
\* file_id=uploaded.id); APIError: message, sys.exit(1)           (147-155)
UploadFileAttach ==
    /\ fn = "cmd_upload_file"
    /\ out.called
    /\ out.at = "attach"
    /\ \E ok \in BOOLEAN :
          LET call == [api |-> "vector_stores.files.create", ok |-> ok,
                       file |-> out.uploaded, store |-> arg.store_id]
          IN  out' = IF ok
                     THEN [out EXCEPT !.at = "done", !.status = 0,
                                      !.calls = Append(@, call),
                                      !.attached = @ \cup {<<arg.store_id, out.uploaded>>}]
                     ELSE [out EXCEPT !.at = "exited", !.status = 1,
                                      !.calls = Append(@, call),
                                      !.files = OnAttachError(@, out.uploaded),
                                      !.stderr = @ \cup {"attach_failed"}]
    /\ UNCHANGED <<fn, arg>>
    /\ UNCHANGED <<jpegVars, scriptVars>>

NextUploadFile ==
    \/ UploadFileGetClient
    \/ UploadFileCheck
    \/ UploadFileCreate
    \/ UploadFileAttach

SpecUploadFile == InitUploadFile /\ [][NextUploadFile]_vars

\* The calls made so far, by API
CallsOf(api) == { i \in 1 .. Len(out.calls) : out.calls[i].api = api }

(* C26: openvs upload-file is two steps with no rollback.  When --file names
   no file no API call is made; the file is attached only after the Files
   upload succeeded, with the id that upload returned and to the store
   named; after a failed upload there is no attach; after a failed attach
   the process exits with status 1 and the uploaded file is still in Files,
   no other call having been made. *)
C26_UploadThenAttachNoRollback ==
    (fn = "cmd_upload_file" /\ out.called) =>
       /\ ~arg.is_file => out.calls = <<>>
       /\ \A i \in 1 .. Len(out.calls) :
             out.calls[i].api \in {"files.create", "vector_stores.files.create"}
       /\ \A i \in CallsOf("vector_stores.files.create") :
             /\ i = 2
             /\ out.calls[1].api = "files.create"
             /\ out.calls[1].ok
             /\ out.calls[i].file = out.calls[1].file
             /\ out.calls[i].store = arg.store_id
       /\ \A i \in CallsOf("files.create") :
             /\ i = 1
             /\ ~out.calls[i].ok =>
                   (Len(out.calls) = 1 /\ out.at = "exited" /\ out.status = 1
                    /\ out.files = arg.files)
       /\ \A i \in CallsOf("vector_stores.files.create") :
             ~out.calls[i].ok =>
                /\ out.at = "exited"
                /\ out.status = 1
                /\ Len(out.calls) = 2
                /\ out.calls[1].file \in out.files
                /\ out.files = arg.files \cup {out.calls[1].file}
                /\ out.attached = {}
       /\ out.at = "done" =>
             (out.status = 0 /\ out.attached = {<<arg.store_id, out.uploaded>>})

\* The upload went through and the attach failed: the process has exited
\* with status 1 and the account holds one file more than before
C26_Witness ==
    /\ fn = "cmd_upload_file"
    /\ out.called
    /\ out.at = "exited"
    /\ Len(out.calls) = 2
    /\ ~out.calls[2].ok
    /\ out.calls[1].file \in out.files \ arg.files
    /\ arg.files # {}

----------------------------------------------------------------------------
(* The loop of extract_markdown_images on any text: every string of up to
   MaxText characters over the characters the scanner looks at and one
   other.  out.scan is the history of the loop: for every iteration started,
   the index i at its top, where "![" and the "]" after it were found, and
   whether the iteration ended in a break or appended a pair and set the
   next index. *)

MaxText == 6
Chars == {"!", "[", "]", "(", ")", "a"}
Texts == UNION { [1 .. n -> Chars] : n \in 0 .. MaxText }

RECURSIVE ScanTrace(_, _)
ScanTrace(text, i) ==
    IF ~(i < Len(text)) THEN <<>>
    ELSE LET st   == ScanStep(text, i)
             bang == Find(text, <<"!", "[">>, i)
             rec  == [i |-> i, bang |-> bang,
                      close_bracket |-> (IF bang = -1 THEN -1
                                         ELSE Find(text, <<"]">>, bang + 2)),
                      stop |-> st.stop, next |-> st.i, pair |-> st.pair]
         IN  IF st.stop THEN <<rec>> ELSE <<rec>> \o ScanTrace(text, st.i)

InitScan ==
    /\ IdleJpeg
    /\ IdleScripts
    /\ fn = "extract_markdown_images.loop"
    /\ arg \in { [text |-> t] : t \in Texts }
    /\ out = NoOut

CallScan ==
    /\ fn = "extract_markdown_images.loop"
    /\ ~out.called
    /\ out' = [called |-> TRUE, images |-> extract_markdown_images(arg.text),
               scan |-> ScanTrace(arg.text, 0)]
    /\ UNCHANGED <<fn, arg>>
    /\ UNCHANGED <<jpegVars, scriptVars>>

NextScan ==
    \/ CallScan

SpecScan == InitScan /\ [][NextScan]_vars

\* Python's text[p], and the places (0-based) where "![" stands in the text
CharAt(t, p) == t[p + 1]
Bangs(t) == { b \in 0 .. Len(t) - 2 : CharAt(t, b) = "!" /\ CharAt(t, b + 1) = "[" }
\* No character c at or after place p
NoneFrom(t, c, p) == \A q \in p .. Len(t) - 1 : CharAt(t, q) # c
\* The "![" that have no "]" after them
Unclosed(t) == { b \in Bangs(t) : NoneFrom(t, "]", b + 2) }
\* The iterations that appended a pair
Appending(tr) == { k \in 1 .. Len(tr) : ~tr[k].stop }

(* C27: the scan index of extract_markdown_images strictly increases on
   every iteration, so the scan is one forward pass that ends for every
   text; each "![" gives at most one pair; the scan stops at the first "!["
   that no "]" follows; a tag whose "(" no ")" follows gives (alt, None);
   no alt returned contains "]" and no url returned contains ")". *)
C27_SingleForwardScan ==
    (fn = "extract_markdown_images.loop" /\ out.called) =>
       LET t  == arg.text
           tr == out.scan
       IN  /\ Len(tr) <= Len(t)
           /\ \A k \in 1 .. Len(tr) :
                 /\ tr[k].i >= 0 /\ tr[k].i < Len(t)
                 /\ k = 1 => tr[k].i = 0
                 /\ k < Len(tr) => (~tr[k].stop /\ tr[k + 1].i = tr[k].next)
                 /\ ~tr[k].stop => tr[k].next > tr[k].i
           /\ Len(tr) > 0 =>
                 (tr[Len(tr)].stop \/ tr[Len(tr)].next >= Len(t))
           /\ Len(out.images) = Cardinality(Appending(tr))
           /\ \A k \in Appending(tr) :
                 /\ out.images[k] = tr[k].pair
                 /\ tr[k].bang \in Bangs(t)
                 /\ \A m \in Appending(tr) : m < k => tr[m].bang < tr[k].bang
                 /\ \A b \in Unclosed(t) : tr[k].bang < b
           /\ \A k \in 1 .. Len(tr) :
                 tr[k].stop => (tr[k].bang = -1 \/ tr[k].bang \in Unclosed(t))
           /\ \A k \in Appending(tr) :
                 LET cb == tr[k].close_bracket
                 IN  (/\ cb + 1 < Len(t)
                      /\ CharAt(t, cb + 1) = "("
                      /\ NoneFrom(t, ")", cb + 2)) =>
                         /\ tr[k].pair[2] = None
                         /\ tr[k].pair[1] =
                               (IF Trimmed(Slice(t, tr[k].bang + 2, cb)) = <<>> THEN None
                                ELSE Trimmed(Slice(t, tr[k].bang + 2, cb)))
           /\ \A k \in 1 .. Len(out.images) :
                 /\ \A j \in 1 .. Len(out.images[k][1]) : out.images[k][1][j] # "]"
                 /\ \A j \in 1 .. Len(out.images[k][2]) : out.images[k][2][j] # ")"

\* "![](![" : a tag whose "(" is never closed gives (None, None), and the
\* scan then stops at a "![" that no "]" follows
C27_Witness ==
    /\ fn = "extract_markdown_images.loop"
    /\ out.called
    /\ arg.text = <<"!", "[", "]", "(", "!", "[">>
    /\ Len(out.scan) = 2
    /\ ~out.scan[1].stop
    /\ out.scan[1].next = 4
    /\ out.scan[2].stop
    /\ out.scan[2].bang = 4
    /\ out.images = << <<None, None>> >>

=============================================================================
